---- MODULE Spec2Model ----
(***************************************************************************)
(* A model of pdfex (ha1tch/pdfex): the xref locator and trailer resolver, *)
(* the object reader, the stream filter chain with its predictors, the     *)
(* page tree walker and the text chunker.  Files are byte strings; every   *)
(* scan, index and regular expression of the Go source is computed on the  *)
(* bytes as the Go code computes it.                                       *)
(***************************************************************************)
EXTENDS Integers, Sequences, FiniteSets, TLC

VARIABLES
    input,   \* how the input file was laid out (what a PDF reader should find)
    file,    \* the bytes of the input file
    pc,      \* position inside ParsePDF / the function under test
    doc,     \* the PDFDocument under construction
    ret,     \* what ParsePDF returned: "none", "doc", "error", "panic"
    steps,   \* the recovery steps taken, in order
    call,    \* arguments of a filter / predictor call
    out      \* result of that call

vars == <<input, file, pc, doc, ret, steps, call, out>>

-----------------------------------------------------------------------------
(* Bounds *)

MaxPages == 2          \* pages in a generated page tree
MaxRows == 2           \* rows of a predictor buffer
MaxCols == 2           \* bytes per row of a predictor buffer

-----------------------------------------------------------------------------
(* Byte-string helpers: Go's strings / bytes packages *)

\* the element of a set of one element
Only(S) == CHOOSE x \in S : TRUE

\* F applied to the value v: names a value that is used more than once
With(v, F(_)) == F(v)

Min(S) == CHOOSE x \in S : \A y \in S : x <= y
Max(S) == CHOOSE x \in S : \A y \in S : x >= y

\* str[i], 0-based as in Go
At(str, i) == SubSeq(str, i + 1, i + 1)

\* str[a:b], 0-based half-open as in Go
Slice(str, a, b) == SubSeq(str, a + 1, b)

HasAt(str, sub, i) ==
    /\ i >= 0
    /\ i + Len(sub) <= Len(str)
    /\ Slice(str, i, i + Len(sub)) = sub

\* bytes.Index / strings.Index: first occurrence or -1
Index(str, sub) ==
    IF \E i \in 0..(Len(str) - Len(sub)) : HasAt(str, sub, i)
    THEN Min({i \in 0..(Len(str) - Len(sub)) : HasAt(str, sub, i)})
    ELSE -1

\* first occurrence at or after position from, or -1
IndexFrom(str, sub, from) ==
    IF \E i \in from..(Len(str) - Len(sub)) : HasAt(str, sub, i)
    THEN Min({i \in from..(Len(str) - Len(sub)) : HasAt(str, sub, i)})
    ELSE -1

Contains(str, sub) == Index(str, sub) # -1
HasPrefix(str, sub) == HasAt(str, sub, 0)
HasSuffix(str, sub) == HasAt(str, sub, Len(str) - Len(sub))

Digits == {"0", "1", "2", "3", "4", "5", "6", "7", "8", "9"}
IsDigit(c) == c \in Digits
\* \s of Go's regexp: [\t\n\f\r ]
IsSpace(c) == c \in {" ", "\t", "\n", "\f", "\r"}
IsNonSpace(c) == ~IsSpace(c)
IsNotNewline(c) == c # "\n"
Lower == {"a","b","c","d","e","f","g","h","i","j","k","l","m",
          "n","o","p","q","r","s","t","u","v","w","x","y","z"}
Upper == {"A","B","C","D","E","F","G","H","I","J","K","L","M",
          "N","O","P","Q","R","S","T","U","V","W","X","Y","Z"}
IsAlnum(c) == c \in Lower \cup Upper \cup Digits

\* end (exclusive) of the longest run of bytes satisfying P that starts at i
RunEnd(str, i, P(_)) ==
    IF \E j \in i..(Len(str) - 1) : ~P(At(str, j))
    THEN Min({j \in i..(Len(str) - 1) : ~P(At(str, j))})
    ELSE IF i > Len(str) THEN i ELSE Len(str)

DigitVal(c) ==
    CASE c = "0" -> 0 [] c = "1" -> 1 [] c = "2" -> 2 [] c = "3" -> 3
      [] c = "4" -> 4 [] c = "5" -> 5 [] c = "6" -> 6 [] c = "7" -> 7
      [] c = "8" -> 8 [] c = "9" -> 9

\* strconv.Atoi / ParseInt on a string of decimal digits
RECURSIVE Atoi(_)
Atoi(s) ==
    IF s = "" THEN 0
    ELSE 10 * Atoi(SubSeq(s, 1, Len(s) - 1)) + DigitVal(SubSeq(s, Len(s), Len(s)))

IsNumber(s) == s # "" /\ \A i \in 0..(Len(s) - 1) : IsDigit(At(s, i))

DigitStr(d) ==
    CASE d = 0 -> "0" [] d = 1 -> "1" [] d = 2 -> "2" [] d = 3 -> "3"
      [] d = 4 -> "4" [] d = 5 -> "5" [] d = 6 -> "6" [] d = 7 -> "7"
      [] d = 8 -> "8" [] d = 9 -> "9"

\* decimal rendering of a natural number
RECURSIVE Itoa(_)
Itoa(n) == IF n < 10 THEN DigitStr(n) ELSE Itoa(n \div 10) \o DigitStr(n % 10)

\* n copies of the string c
RECURSIVE Rep(_, _)
Rep(c, n) ==
    IF n <= 0 THEN ""
    ELSE IF n % 2 = 1 THEN c \o Rep(c, n - 1)
    ELSE With(Rep(c, n \div 2), LAMBDA h : h \o h)

\* %0*d
ZeroPad(n, width) == Rep("0", width - Len(Itoa(n))) \o Itoa(n)

\* bufio.Scanner with ScanLines on the bytes str: the lines without their
\* end-of-line marker (a trailing \r is dropped too); a final empty line
\* is not returned.
DropCR(line) ==
    IF line # "" /\ SubSeq(line, Len(line), Len(line)) = "\r"
    THEN SubSeq(line, 1, Len(line) - 1) ELSE line

RECURSIVE ScanLines(_)
ScanLines(str) ==
    IF str = "" THEN <<>>
    ELSE With(Index(str, "\n"), LAMBDA k :
            IF k = -1 THEN <<DropCR(str)>>
            ELSE <<DropCR(Slice(str, 0, k))>> \o ScanLines(Slice(str, k + 1, Len(str))))

\* the bytes of the file from offset off on (a read after Seek(off))
FromOffset(str, off) == IF off >= Len(str) THEN "" ELSE Slice(str, off, Len(str))

\* strings.Fields: the maximal runs of non-space bytes
RECURSIVE FieldsFrom(_, _)
FieldsFrom(str, i) ==
    With(RunEnd(str, i, IsSpace), LAMBDA a :
        IF a >= Len(str) THEN <<>>
        ELSE With(RunEnd(str, a, IsNonSpace), LAMBDA b :
                <<Slice(str, a, b)>> \o FieldsFrom(str, b)))

Fields(str) == FieldsFrom(str, 0)

-----------------------------------------------------------------------------
(* internal/utils/parsing.go *)

NoDict == [k \in {} |-> [t |-> "s", v |-> ""]]

\* a dictionary value: a string, or a nested dictionary
StrVal(s) == [t |-> "s", v |-> s]
DictVal(d) == [t |-> "d", v |-> d]

Has(dict, key) == key \in DOMAIN dict
Put(dict, key, val) == [k \in DOMAIN dict \cup {key} |-> IF k = key THEN val ELSE dict[k]]

\* one match of  /([A-Za-z0-9]+)\s+<<(.*?)>>  starting exactly at i
NestedDictAt(data, i) ==
    With(RunEnd(data, i + 1, IsAlnum), LAMBDA e :
    With(RunEnd(data, e, IsSpace), LAMBDA w :
    \* . does not match \n
    With(IndexFrom(Slice(data, 0, RunEnd(data, w + 2, IsNotNewline)), ">>", w + 2), LAMBDA k :
        IF /\ HasAt(data, "/", i) /\ e > i + 1 /\ w > e
           /\ HasAt(data, "<<", w) /\ k # -1
        THEN [ok |-> TRUE, key |-> Slice(data, i + 1, e),
              val |-> Slice(data, w + 2, k), end |-> k + 2]
        ELSE [ok |-> FALSE, key |-> "", val |-> "", end |-> i])))

\* one match of  /([A-Za-z0-9]+)[\s]+([\S]+|<<.*?>>|\[.*?\])  starting at i:
\* the first alternative [\S]+ wins whenever a non-space byte follows, so
\* the value is the run of non-space bytes after the key
KeyValueAt(data, i) ==
    With(RunEnd(data, i + 1, IsAlnum), LAMBDA e :
    With(RunEnd(data, e, IsSpace), LAMBDA w :
    With(RunEnd(data, w, IsNonSpace), LAMBDA v :
        IF HasAt(data, "/", i) /\ e > i + 1 /\ w > e /\ v > w
        THEN [ok |-> TRUE, key |-> Slice(data, i + 1, e),
              val |-> Slice(data, w, v), end |-> v]
        ELSE [ok |-> FALSE, key |-> "", val |-> "", end |-> i])))

\* FindAllSubmatch: the successive non-overlapping leftmost matches
RECURSIVE FindAllNested(_, _)
FindAllNested(data, from) ==
    IF \A i \in from..(Len(data) - 1) : ~NestedDictAt(data, i).ok THEN <<>>
    ELSE With(NestedDictAt(data, Min({i \in from..(Len(data) - 1) :
                                         NestedDictAt(data, i).ok})), LAMBDA m :
            <<m>> \o FindAllNested(data, m.end))

RECURSIVE FindAllKeyValues(_, _)
FindAllKeyValues(data, from) ==
    IF \A i \in from..(Len(data) - 1) : ~KeyValueAt(data, i).ok THEN <<>>
    ELSE With(KeyValueAt(data, Min({i \in from..(Len(data) - 1) :
                                       KeyValueAt(data, i).ok})), LAMBDA m :
            <<m>> \o FindAllKeyValues(data, m.end))

RECURSIVE ParseDictionary(_, _)
RECURSIVE PutNested(_, _, _)
RECURSIVE PutKeyValues(_, _, _)

PutNested(ms, k, dict) ==
    IF k > Len(ms) THEN dict
    ELSE PutNested(ms, k + 1,
                   Put(dict, ms[k].key, DictVal(ParseDictionary(ms[k].val, NoDict))))

PutKeyValues(ms, k, dict) ==
    IF k > Len(ms) THEN dict
    ELSE IF Has(dict, ms[k].key) /\ dict[ms[k].key].t = "d"
         THEN PutKeyValues(ms, k + 1, dict)
         ELSE PutKeyValues(ms, k + 1, Put(dict, ms[k].key, StrVal(ms[k].val)))

ParseDictionary(data, dict) ==
    PutKeyValues(FindAllKeyValues(data, 0), 1, PutNested(FindAllNested(data, 0), 1, dict))

\* one match of  (\d+)\s+\d+\s+R  starting at i
RefAt(ref, i) ==
    \E a \in {RunEnd(ref, i, IsDigit)} :
    \E b \in {RunEnd(ref, a, IsSpace)} :
    \E c \in {RunEnd(ref, b, IsDigit)} :
    \E d \in {RunEnd(ref, c, IsSpace)} :
        a > i /\ b > a /\ c > b /\ d > c /\ HasAt(ref, "R", d)

\* ExtractReference: the object number, or -1 for the error return
ExtractReference(ref) ==
    IF \A i \in 0..(Len(ref) - 1) : ~RefAt(ref, i) THEN -1
    ELSE With(Min({i \in 0..(Len(ref) - 1) : RefAt(ref, i)}), LAMBDA s :
            Atoi(Slice(ref, s, RunEnd(ref, s, IsDigit))))

RECURSIVE ParseArrayFrom(_, _, _, _, _)
\* the scan of ParseArray over content[i:], cur the item being collected
ParseArrayFrom(content, i, cur, nestedLevel, dictLevel) ==
    IF i >= Len(content) THEN (IF cur # "" THEN <<cur>> ELSE <<>>)
    ELSE IF At(content, i) = "["
         THEN ParseArrayFrom(content, i + 1, cur \o "[", nestedLevel + 1, dictLevel)
    ELSE IF At(content, i) = "]"
         THEN ParseArrayFrom(content, i + 1, cur \o "]", nestedLevel - 1, dictLevel)
    ELSE IF HasAt(content, "<<", i)
         THEN ParseArrayFrom(content, i + 2, cur \o "<<", nestedLevel, dictLevel + 1)
    ELSE IF HasAt(content, ">>", i)
         THEN ParseArrayFrom(content, i + 2, cur \o ">>", nestedLevel, dictLevel - 1)
    ELSE IF At(content, i) \in {" ", "\t", "\n", "\r"} /\ nestedLevel = 0 /\ dictLevel = 0
         THEN (IF cur # "" THEN <<cur>> ELSE <<>>)
              \o ParseArrayFrom(content, i + 1, "", nestedLevel, dictLevel)
    ELSE ParseArrayFrom(content, i + 1, cur \o At(content, i), nestedLevel, dictLevel)

\* ParseArray: the items of "[ ... ]", or the empty list (nil)
ParseArray(arrayStr) ==
    IF ~HasPrefix(arrayStr, "[") \/ ~HasSuffix(arrayStr, "]") THEN <<>>
    ELSE ParseArrayFrom(Slice(arrayStr, 1, Len(arrayStr) - 1), 0, "", 0, 0)

-----------------------------------------------------------------------------
(* internal/document/xref.go *)

NoXRef == [n \in {} |-> [Offset |-> 0, Generation |-> 0, InUse |-> FALSE]]

\* one match of  startxref\s*(\d+)  starting at i
StartxrefAt(buf, i) ==
    /\ HasAt(buf, "startxref", i)
    /\ RunEnd(buf, i + 9, IsSpace) < Len(buf)
    /\ IsDigit(At(buf, RunEnd(buf, i + 9, IsSpace)))

\* findLastXRefOffset: [err, offset]
findLastXRefOffset(f, fileSize) ==
    With(Slice(f, fileSize - (IF fileSize < 1024 THEN fileSize ELSE 1024), fileSize),
         LAMBDA buffer :
        IF \A i \in 0..(Len(buffer) - 9) : ~StartxrefAt(buffer, i)
        THEN [err |-> TRUE, offset |-> 0]
        ELSE With(RunEnd(buffer, Min({i \in 0..(Len(buffer) - 9) :
                                         StartxrefAt(buffer, i)}) + 9, IsSpace),
                  LAMBDA d :
                [err |-> FALSE,
                 offset |-> Atoi(Slice(buffer, d, RunEnd(buffer, d, IsDigit)))]))

\* xrefEntryRegex  ^(\d{10}) (\d{5}) ([nf])$
xrefEntryRegex(entry) ==
    /\ Len(entry) = 18
    /\ \A i \in 0..9 : IsDigit(At(entry, i))
    /\ At(entry, 10) = " "
    /\ \A i \in 11..15 : IsDigit(At(entry, i))
    /\ At(entry, 16) = " "
    /\ At(entry, 17) \in {"n", "f"}

\* one pass of the entry loop: entry is entry number i of the subsection
ReadEntry(entry, objNum, table) ==
    IF xrefEntryRegex(entry)
    THEN Put(table, objNum,
             [Offset |-> Atoi(Slice(entry, 0, 10)),
              Generation |-> Atoi(Slice(entry, 11, 16)),
              InUse |-> At(entry, 17) = "n"])
    ELSE table

RECURSIVE ReadSubsection(_, _, _, _, _, _)
\* for i := 0; i < count && scanner.Scan(); i++, the entries being lines[k..]
ReadSubsection(lines, k, startObj, count, i, table) ==
    IF i >= count \/ k + i > Len(lines) THEN table
    ELSE ReadSubsection(lines, k, startObj, count, i + 1,
                        ReadEntry(lines[k + i], startObj + i, table))

RECURSIVE ReadSubsections(_, _, _)
\* the subsection loop of parseXRef, at line k
ReadSubsections(lines, k, table) ==
    IF k > Len(lines) THEN table
    ELSE IF HasPrefix(lines[k], "trailer") THEN table
    ELSE With(Fields(lines[k]), LAMBDA parts :
            IF Len(parts) = 2 /\ IsNumber(parts[1]) /\ IsNumber(parts[2])
            THEN ReadSubsections(lines,
                     k + 1 + (IF Atoi(parts[2]) < Len(lines) - k
                              THEN Atoi(parts[2]) ELSE Len(lines) - k),
                     ReadSubsection(lines, k + 1, Atoi(parts[1]), Atoi(parts[2]), 0, table))
            ELSE ReadSubsections(lines, k + 1, table))

\* parseXRef: [err, table]
parseXRef(f, offset, table) ==
    IF offset >= Len(f) THEN [err |-> TRUE, table |-> table]
    ELSE With(Slice(f, offset, IF offset + 20 < Len(f) THEN offset + 20 ELSE Len(f)),
              LAMBDA checkBuf :
            IF ~HasPrefix(checkBuf, "xref") /\ (Len(checkBuf) < 5 \/ ~Contains(checkBuf, "xref"))
            THEN [err |-> TRUE, table |-> table]
            ELSE With(ScanLines(FromOffset(f, offset + Index(checkBuf, "xref"))),
                      LAMBDA lines :
                    IF Len(lines) = 0 \/ ~HasPrefix(lines[1], "xref")
                    THEN [err |-> TRUE, table |-> table]
                    ELSE [err |-> FALSE, table |-> ReadSubsections(lines, 2, table)]))

RECURSIVE CollectTrailer(_, _, _, _)
\* the scan loop of parseTrailer: the text collected into trailerData
CollectTrailer(lines, k, inTrailer, trailerData) ==
    IF k > Len(lines) THEN trailerData
    ELSE IF HasPrefix(lines[k], "trailer")
         THEN CollectTrailer(lines, k + 1, TRUE, trailerData)
    ELSE IF inTrailer
         THEN IF Contains(lines[k], "startxref")
              THEN trailerData \o lines[k] \o "\n"
              ELSE CollectTrailer(lines, k + 1, TRUE, trailerData \o lines[k] \o "\n")
    ELSE CollectTrailer(lines, k + 1, FALSE, trailerData)

\* one match of  trailer\s+<<(.*?)>>  starting at i
TrailerDictAt(data, i) ==
    With(RunEnd(data, i + 7, IsSpace), LAMBDA w :
    With(IndexFrom(Slice(data, 0, RunEnd(data, w + 2, IsNotNewline)), ">>", w + 2), LAMBDA k :
        IF HasAt(data, "trailer", i) /\ w > i + 7 /\ HasAt(data, "<<", w) /\ k # -1
        THEN [ok |-> TRUE, val |-> Slice(data, w + 2, k)]
        ELSE [ok |-> FALSE, val |-> ""]))

trailerDictRegex(data) ==
    IF \A i \in 0..(Len(data) - 7) : ~TrailerDictAt(data, i).ok
    THEN [ok |-> FALSE, val |-> ""]
    ELSE TrailerDictAt(data, Min({i \in 0..(Len(data) - 7) : TrailerDictAt(data, i).ok}))

\* parseTrailer: [err, trailer]
parseTrailer(f, xrefOffset, trailer) ==
    With(CollectTrailer(ScanLines(FromOffset(f, xrefOffset)), 1, FALSE, ""),
         LAMBDA trailerData :
        IF trailerData = "" THEN [err |-> TRUE, trailer |-> trailer]
        ELSE With(trailerDictRegex(trailerData), LAMBDA m :
                IF m.ok THEN [err |-> FALSE, trailer |-> ParseDictionary(m.val, trailer)]
                ELSE [err |-> TRUE, trailer |-> trailer]))

searchRange == 1024

\* findNearbyXref: [panic, found, offset]
findNearbyXref(f, offset) ==
    With(IF offset - searchRange < 0 THEN 0 ELSE offset - searchRange, LAMBDA startOffset :
    With(IF offset + searchRange > Len(f) THEN Len(f) ELSE offset + searchRange,
         LAMBDA endOffset :
        IF endOffset - startOffset < 0                   \* make([]byte, bufSize)
        THEN [panic |-> TRUE, found |-> FALSE, offset |-> 0]
        ELSE With(Index(Slice(f, startOffset, endOffset), "xref"), LAMBDA xrefIndex :
                IF xrefIndex # -1
                THEN [panic |-> FALSE, found |-> TRUE, offset |-> startOffset + xrefIndex]
                ELSE [panic |-> FALSE, found |-> FALSE, offset |-> 0])))

trailerBufSize == 4096

RECURSIVE ScanBackForTrailer(_, _)
\* the loop of findTrailerFromEnd at chunk offset
ScanBackForTrailer(f, offset) ==
    IF offset < 0 THEN [found |-> FALSE, offset |-> 0]
    ELSE With(Index(Slice(f, offset, offset + trailerBufSize), "trailer"),
              LAMBDA trailerIndex :
            IF trailerIndex # -1 THEN [found |-> TRUE, offset |-> offset + trailerIndex]
            ELSE ScanBackForTrailer(f, offset - trailerBufSize \div 2))

findTrailerFromEnd(f) == ScanBackForTrailer(f, Len(f) - trailerBufSize)

\* one match of  (\d+)\s+(\d+)\s+obj  starting at i
ObjPatternAt(line, i) ==
    With(RunEnd(line, i, IsDigit), LAMBDA a :
    With(RunEnd(line, a, IsSpace), LAMBDA b :
    With(RunEnd(line, b, IsDigit), LAMBDA c :
        IF a > i /\ b > a /\ c > b /\ RunEnd(line, c, IsSpace) > c
           /\ HasAt(line, "obj", RunEnd(line, c, IsSpace))
        THEN [ok |-> TRUE, num |-> Atoi(Slice(line, i, a)), gen |-> Atoi(Slice(line, b, c))]
        ELSE [ok |-> FALSE, num |-> 0, gen |-> 0])))

RECURSIVE RebuildFrom(_, _, _, _)
\* the scan loop of rebuildXRefTable at line k, fileOffset as the code keeps it
RebuildFrom(lines, k, fileOffset, table) ==
    IF k > Len(lines) THEN table
    ELSE IF \A i \in 0..(Len(lines[k]) - 1) : ~ObjPatternAt(lines[k], i).ok
         THEN RebuildFrom(lines, k + 1, fileOffset + Len(lines[k]) + 1, table)
    ELSE With(Min({i \in 0..(Len(lines[k]) - 1) : ObjPatternAt(lines[k], i).ok}),
              LAMBDA headerIdx :
         With(ObjPatternAt(lines[k], headerIdx), LAMBDA m :
            RebuildFrom(lines, k + 1, fileOffset + Len(lines[k]) + 1,
                        Put(table, m.num,
                            [Offset |-> fileOffset - Len(lines[k]) - 1 + headerIdx,
                             Generation |-> m.gen, InUse |-> TRUE]))))

rebuildXRefTable(f, table) == RebuildFrom(ScanLines(f), 1, 0, table)

-----------------------------------------------------------------------------
(* unnamed/part_000: predictors (package content) *)

\* results of the decoders: st is "ok", "error" or "panic"
Ok(data) == [st |-> "ok", data |-> data]
Failed(data) == [st |-> "error", data |-> data]
Panicked == [st |-> "panic", data |-> <<>>]

\* Go byte addition
AddByte(x, y) == (x + y) % 256

abs(x) == IF x < 0 THEN -x ELSE x

paethPredictor(a, b, c) ==
    IF abs(b - c) <= abs(a - c) /\ abs(b - c) <= abs(a + b - c - c) THEN a
    ELSE IF abs(a - c) <= abs(a + b - c - c) THEN b
    ELSE c

\* the byte decoded from x at position i of a row with filter type predictor
PNGByte(predictor, x, left, up, upLeft, i, row, bytesPerPixel) ==
    CASE predictor = 1 -> (IF i < bytesPerPixel THEN x ELSE AddByte(x, left))
      [] predictor = 2 -> (IF row = 0 THEN x ELSE AddByte(x, up))
      [] predictor = 3 -> AddByte(x, AddByte(left, up) \div 2)
      [] predictor = 4 -> AddByte(x, paethPredictor(left, up, upLeft))
      [] OTHER -> x

RECURSIVE PNGRow(_, _, _, _, _, _)
\* one row of applyPNGPredictor: resultRow holds the bytes decoded so far
\* (0-based positions 0..Len-1), prevRow is the decoded row above (<<>> for row 0)
PNGRow(predictor, rowData, prevRow, bytesPerPixel, row, resultRow) ==
    IF Len(resultRow) >= Len(rowData) THEN resultRow
    ELSE PNGRow(predictor, rowData, prevRow, bytesPerPixel, row,
                Append(resultRow,
                       PNGByte(predictor, rowData[Len(resultRow) + 1],
                               IF Len(resultRow) >= bytesPerPixel
                               THEN resultRow[Len(resultRow) - bytesPerPixel + 1] ELSE 0,
                               IF row > 0 THEN prevRow[Len(resultRow) + 1] ELSE 0,
                               IF row > 0 /\ Len(resultRow) >= bytesPerPixel
                               THEN prevRow[Len(resultRow) - bytesPerPixel + 1] ELSE 0,
                               Len(resultRow), row, bytesPerPixel)))

RECURSIVE PNGRows(_, _, _, _, _, _)
PNGRows(data, bytesPerPixel, rowLength, rows, row, result) ==
    IF row >= rows THEN result
    ELSE PNGRows(data, bytesPerPixel, rowLength, rows, row + 1,
                 result \o PNGRow(data[row * (rowLength + 1) + 1],
                                  SubSeq(data, row * (rowLength + 1) + 2,
                                         (row + 1) * (rowLength + 1)),
                                  IF row = 0 THEN <<>>
                                  ELSE SubSeq(result, (row - 1) * rowLength + 1,
                                              row * rowLength),
                                  bytesPerPixel, row, <<>>))

applyPNGPredictor(data, columns, bytesPerPixel, rowLength) ==
    IF Len(data) \div (rowLength + 1) = 0 \/ Len(data) % (rowLength + 1) # 0
    THEN Failed(<<>>)
    ELSE Ok(PNGRows(data, bytesPerPixel, rowLength, Len(data) \div (rowLength + 1), 0, <<>>))

RECURSIVE TIFFRow(_, _, _)
TIFFRow(rowData, colors, resultRow) ==
    IF Len(resultRow) >= Len(rowData) THEN resultRow
    ELSE TIFFRow(rowData, colors,
                 Append(resultRow,
                        IF Len(resultRow) < colors THEN rowData[Len(resultRow) + 1]
                        ELSE AddByte(rowData[Len(resultRow) + 1],
                                     resultRow[Len(resultRow) - colors + 1])))

RECURSIVE TIFFRows(_, _, _, _, _)
TIFFRows(data, colors, rowLength, rows, row) ==
    IF row >= rows THEN <<>>
    ELSE TIFFRow(SubSeq(data, row * rowLength + 1, (row + 1) * rowLength), colors, <<>>)
         \o TIFFRows(data, colors, rowLength, rows, row + 1)

applyTIFFPredictor(data, columns, colors, bitsPerComponent, rowLength) ==
    IF bitsPerComponent # 8 THEN Ok(data)
    ELSE IF rowLength = 0 THEN Panicked                      \* len(data) / rowLength
    ELSE IF colors > rowLength /\ Len(data) >= rowLength THEN Panicked   \* resultRow[i]
    ELSE Ok(TIFFRows(data, colors, rowLength, Len(data) \div rowLength, 0))

\* strconv.Atoi(decodeParms[key].(string)), or the default without the key
ParmInt(decodeParms, key, default) ==
    IF ~Has(decodeParms, key) THEN default
    ELSE IF IsNumber(decodeParms[key].v) THEN Atoi(decodeParms[key].v)
    ELSE 0

\* the value of key is no string (the assertion .(string) fails)
ParmPanics(decodeParms, key) == Has(decodeParms, key) /\ decodeParms[key].t # "s"

\* strconv.Atoi fails on the value of key
ParmFails(decodeParms, key) ==
    Has(decodeParms, key) /\ decodeParms[key].t = "s" /\ ~IsNumber(decodeParms[key].v)

PredictorRows(data, predictor, columns, colors, bitsPerComponent) ==
    IF predictor >= 10 /\ predictor <= 15
    THEN applyPNGPredictor(data, columns, (colors * bitsPerComponent + 7) \div 8,
                           (columns * colors * bitsPerComponent + 7) \div 8)
    ELSE IF predictor = 2
         THEN applyTIFFPredictor(data, columns, colors, bitsPerComponent,
                                 (columns * colors * bitsPerComponent + 7) \div 8)
    ELSE Ok(data)

applyPredictor(data, predictor, decodeParms) ==
    IF ParmPanics(decodeParms, "Columns") THEN Panicked
    ELSE IF ParmFails(decodeParms, "Columns") THEN Failed(<<>>)
    ELSE IF ParmPanics(decodeParms, "Colors") THEN Panicked
    ELSE IF ParmFails(decodeParms, "Colors") THEN Failed(<<>>)
    ELSE IF ParmPanics(decodeParms, "BitsPerComponent") THEN Panicked
    ELSE IF ParmFails(decodeParms, "BitsPerComponent") THEN Failed(<<>>)
    ELSE PredictorRows(data, predictor, ParmInt(decodeParms, "Columns", 1),
                       ParmInt(decodeParms, "Colors", 1),
                       ParmInt(decodeParms, "BitsPerComponent", 8))

-----------------------------------------------------------------------------
(* unnamed/part_000: the filter chain (package content) *)

\* compress/zlib and encoding/ascii85 of the Go library.  The encoded form
\* of the bytes x is a two-byte header followed by x; the decoder accepts
\* exactly the encoded forms, returns x, and fails on anything else.
ZlibHeader == <<120, 94>>
Ascii85Header == <<60, 126>>
Deflate(x) == ZlibHeader \o x
Ascii85Encode(x) == Ascii85Header \o x

Inflate(s) ==
    IF Len(s) >= 2 /\ SubSeq(s, 1, 2) = ZlibHeader THEN Ok(SubSeq(s, 3, Len(s)))
    ELSE Failed(<<>>)

Ascii85Decode(s) ==
    IF Len(s) >= 2 /\ SubSeq(s, 1, 2) = Ascii85Header THEN Ok(SubSeq(s, 3, Len(s)))
    ELSE Failed(<<>>)

RECURSIVE decodeRunLengthFrom(_, _, _)
decodeRunLengthFrom(in, i, output) ==
    IF i >= Len(in) THEN Ok(output)
    ELSE IF in[i + 1] = 128 THEN Ok(output)
    ELSE IF in[i + 1] < 128
         THEN IF i + 1 + (in[i + 1] + 1) > Len(in) THEN Failed(<<>>)
              ELSE decodeRunLengthFrom(in, i + 1 + (in[i + 1] + 1),
                       output \o SubSeq(in, i + 2, i + 1 + (in[i + 1] + 1)))
    ELSE IF i + 1 >= Len(in) THEN Failed(<<>>)
         ELSE decodeRunLengthFrom(in, i + 2,
                  output \o [j \in 1..(257 - in[i + 1]) |-> in[i + 2]])

decodeRunLength(in) == decodeRunLengthFrom(in, 0, <<>>)

FlatDecode(decompressed, decodeParms) ==
    IF decompressed.st # "ok" THEN Failed(<<>>)
    ELSE IF ParmPanics(decodeParms, "Predictor") THEN Panicked
    ELSE IF ParmInt(decodeParms, "Predictor", 0) > 1
         THEN applyPredictor(decompressed.data, ParmInt(decodeParms, "Predictor", 0),
                             decodeParms)
    ELSE decompressed

applySingleFilter(stream, filterType, decodeParms) ==
    CASE filterType = "/FlatDecode" -> FlatDecode(Inflate(stream), decodeParms)
      [] filterType = "/ASCII85Decode" -> Ascii85Decode(stream)
      [] filterType = "/LZWDecode" -> Failed(stream)
      [] filterType = "/RunLengthDecode" -> decodeRunLength(stream)
      [] filterType = "/DCTDecode" -> Ok(stream)
      [] filterType = "/JPXDecode" -> Ok(stream)
      [] filterType = "/CCITTFaxDecode" -> Failed(stream)
      [] filterType = "/JBIG2Decode" -> Failed(stream)
      [] OTHER -> Failed(stream)

\* parmsItems[i] parsed: [st, dict]
FilterParmsItem(item) ==
    IF ~HasPrefix(item, "<<") THEN [st |-> "ok", dict |-> NoDict]
    ELSE IF Len(item) < 4 THEN [st |-> "panic", dict |-> NoDict]    \* [2 : len-2]
    ELSE [st |-> "ok", dict |-> ParseDictionary(Slice(item, 2, Len(item) - 2), NoDict)]

\* the /DecodeParms entry used for filter number i (0-based) of a filter
\* array: [st, dict]
FilterParms(decodeParms, i) ==
    IF ~Has(decodeParms, "Array") THEN [st |-> "ok", dict |-> NoDict]
    ELSE IF decodeParms["Array"].t # "s" THEN [st |-> "panic", dict |-> NoDict]
    ELSE IF HasPrefix(decodeParms["Array"].v, "[")
            /\ i < Len(ParseArray(decodeParms["Array"].v))
         THEN FilterParmsItem(ParseArray(decodeParms["Array"].v)[i + 1])
    ELSE [st |-> "ok", dict |-> NoDict]

RECURSIVE ApplyFilterArray(_, _, _, _)
\* the rest of the loop after the filter at index i gave r
FilterStep(r, filterArray, i, decodeParms) ==
    IF r.st = "panic" THEN Panicked
    ELSE IF r.st # "ok" THEN Failed(<<>>)
    ELSE ApplyFilterArray(r.data, filterArray, i - 1, decodeParms)

\* the loop of DecompressStream at index i, counting down
ApplyFilterArray(result, filterArray, i, decodeParms) ==
    IF i < 0 THEN Ok(result)
    ELSE IF FilterParms(decodeParms, i).st = "panic" THEN Panicked
    ELSE FilterStep(applySingleFilter(result, filterArray[i + 1],
                                      FilterParms(decodeParms, i).dict),
                    filterArray, i, decodeParms)

DecompressStream(stream, filterSpec, decodeParms) ==
    IF HasPrefix(filterSpec, "[") /\ HasSuffix(filterSpec, "]")
    THEN ApplyFilterArray(stream, ParseArray(filterSpec), Len(ParseArray(filterSpec)) - 1,
                          decodeParms)
    ELSE applySingleFilter(stream, filterSpec, decodeParms)

-----------------------------------------------------------------------------
(* internal/document/objects.go *)

\* the byte values of the characters of a file
PrintableLow ==
    " !\"#$%&'()*+,-./0123456789:;<=>?@ABCDEFGHIJKLMNOPQRSTUVWXYZ[\\]^_"
PrintableHigh == "abcdefghijklmnopqrstuvwxyz{|}~"

Ord(c) ==
    CASE c = "\t" -> 9 [] c = "\n" -> 10 [] c = "\f" -> 12 [] c = "\r" -> 13
      [] Contains(PrintableLow, c) -> 32 + Index(PrintableLow, c)
      [] OTHER -> 97 + Index(PrintableHigh, c)

Chr(n) ==
    CASE n = 9 -> "\t" [] n = 10 -> "\n" [] n = 12 -> "\f" [] n = 13 -> "\r"
      [] n >= 32 /\ n <= 95 -> At(PrintableLow, n - 32)
      [] n >= 97 /\ n <= 126 -> At(PrintableHigh, n - 97)
      [] OTHER -> "?"

\* []byte(str) and string(bytes)
Bytes(str) == [k \in 1..Len(str) |-> Ord(SubSeq(str, k, k))]

RECURSIVE String(_)
String(bytes) ==
    IF Len(bytes) = 0 THEN ""
    ELSE IF Len(bytes) = 1 THEN Chr(bytes[1])
    ELSE String(SubSeq(bytes, 1, Len(bytes) \div 2))
         \o String(SubSeq(bytes, Len(bytes) \div 2 + 1, Len(bytes)))

\* one match of  (\d+) (\d+) obj  starting at i
ObjHeaderAt(buf, i) ==
    With(RunEnd(buf, i, IsDigit), LAMBDA a :
    With(RunEnd(buf, a + 1, IsDigit), LAMBDA c :
        IF a > i /\ HasAt(buf, " ", a) /\ c > a + 1 /\ HasAt(buf, " obj", c)
        THEN [ok |-> TRUE, num |-> Atoi(Slice(buf, i, a)),
              gen |-> Atoi(Slice(buf, a + 1, c))]
        ELSE [ok |-> FALSE, num |-> 0, gen |-> 0]))

objHeaderPattern(buf) ==
    IF \E i \in 0..(Len(buf) - 1) : ObjHeaderAt(buf, i).ok
    THEN ObjHeaderAt(buf, Min({i \in 0..(Len(buf) - 1) : ObjHeaderAt(buf, i).ok}))
    ELSE [ok |-> FALSE, num |-> 0, gen |-> 0]

RECURSIVE ReadObjectContent(_, _, _, _)
\* the scanner loop that collects the text of an object into contentBuffer
ReadObjectContent(lines, k, inObject, contentBuffer) ==
    IF k > Len(lines) THEN contentBuffer
    ELSE IF ~inObject
         THEN IF Contains(lines[k], " obj")
              THEN ReadObjectContent(lines, k + 1, TRUE,
                       contentBuffer
                       \o Slice(lines[k], Index(lines[k], "obj") + 3, Len(lines[k])))
              ELSE ReadObjectContent(lines, k + 1, FALSE, contentBuffer)
    ELSE IF Contains(lines[k], "endobj") THEN contentBuffer \o lines[k] \o "\n"
    ELSE ReadObjectContent(lines, k + 1, TRUE, contentBuffer \o lines[k] \o "\n")

\* the dictionary of an object whose text is contentBytes
ObjectDictionary(contentBytes) ==
    IF HasPrefix(contentBytes, "<<") /\ Contains(contentBytes, ">>")
    THEN ParseDictionary(Slice(contentBytes, 2, Index(contentBytes, ">>")), NoDict)
    ELSE NoDict

\* the DecodeParms of a stream dictionary, as loadObjects passes them on
StreamParms(dict) ==
    IF ~Has(dict, "DecodeParms") THEN NoDict
    ELSE IF dict["DecodeParms"].t = "d" THEN dict["DecodeParms"].v
    ELSE IF HasPrefix(dict["DecodeParms"].v, "<<")
         THEN ParseDictionary(Slice(dict["DecodeParms"].v, 2,
                                    Len(dict["DecodeParms"].v) - 2), NoDict)
    ELSE NoDict

\* the stream after the decompression attempt that gave decompressed
StreamAfter(raw, decompressed) ==
    IF decompressed.st = "panic" THEN [st |-> "panic", Stream |-> raw, IsStream |-> TRUE]
    ELSE IF decompressed.st = "ok"
         THEN [st |-> "ok", Stream |-> String(decompressed.data), IsStream |-> TRUE]
    ELSE [st |-> "ok", Stream |-> raw, IsStream |-> TRUE]

\* the stream of an object whose bytes from streamStart to streamEnd are raw
StreamOf(raw, dict) ==
    IF ~Has(dict, "Filter") THEN [st |-> "ok", Stream |-> raw, IsStream |-> TRUE]
    \* []byte(p)[2 : len(p)-2] and filter.(string)
    ELSE IF (Has(dict, "DecodeParms") /\ dict["DecodeParms"].t = "s"
             /\ HasPrefix(dict["DecodeParms"].v, "<<") /\ Len(dict["DecodeParms"].v) < 4)
            \/ dict["Filter"].t # "s"
         THEN [st |-> "panic", Stream |-> raw, IsStream |-> TRUE]
    ELSE StreamAfter(raw, DecompressStream(Bytes(raw), dict["Filter"].v, StreamParms(dict)))

\* where the stream data starts, given the index after the keyword "stream"
StreamStart(contentBytes, at6) ==
    IF HasAt(contentBytes, "\r\n", at6) THEN at6 + 2
    ELSE IF HasAt(contentBytes, "\n", at6) THEN at6 + 1
    ELSE at6

StreamBetween(contentBytes, dict, streamStart, streamEnd) ==
    IF ~(streamStart < streamEnd) THEN [st |-> "ok", Stream |-> "", IsStream |-> FALSE]
    ELSE StreamOf(Slice(contentBytes, streamStart, streamEnd), dict)

StreamFrom(contentBytes, dict, at6) ==
    \* contentBytes[streamStart], contentBytes[streamStart+1]: index out of range
    IF at6 >= Len(contentBytes)
       \/ (At(contentBytes, at6) = "\r" /\ at6 + 1 >= Len(contentBytes))
    THEN [st |-> "panic", Stream |-> "", IsStream |-> FALSE]
    ELSE StreamBetween(contentBytes, dict, StreamStart(contentBytes, at6),
                       Index(contentBytes, "endstream"))

\* the stream part of loadObjects: [st, Stream, IsStream]
ObjectStream(contentBytes, dict) ==
    IF ~(Contains(contentBytes, "stream") /\ Contains(contentBytes, "endstream"))
    THEN [st |-> "ok", Stream |-> "", IsStream |-> FALSE]
    ELSE StreamFrom(contentBytes, dict, Index(contentBytes, "stream") + 6)

\* the object built from its text contentBytes: [st, load, obj]
BuildObject(objNum, generation, contentBytes, dict, stream) ==
    [st |-> stream.st, load |-> stream.st = "ok",
     obj |-> [ObjectNumber |-> objNum, Generation |-> generation,
              Content |-> contentBytes, Dictionary |-> dict,
              Stream |-> stream.Stream, IsStream |-> stream.IsStream]]

ParseObject(objNum, generation, contentBytes, dict) ==
    BuildObject(objNum, generation, contentBytes, dict, ObjectStream(contentBytes, dict))

\* contentBytes trimmed at "endobj"
TrimEndobj(contentBuffer) ==
    IF Contains(contentBuffer, "endobj")
    THEN Slice(contentBuffer, 0, Index(contentBuffer, "endobj"))
    ELSE contentBuffer

NoObject ==
    [st |-> "ok", load |-> FALSE,
     obj |-> [ObjectNumber |-> 0, Generation |-> 0, Content |-> "", Dictionary |-> NoDict,
              Stream |-> "", IsStream |-> FALSE]]

\* bufio.MaxScanTokenSize: a line of this many bytes or more stops the
\* scanner with ErrTooLong (the lines here end in LF alone)
maxScanTokenSize == 65536

RECURSIVE ScannerFails(_, _, _)
\* scanner.Err() after the loop that collects the text of an object: the loop
\* has come to a line that is too long before it broke at endobj
ScannerFails(lines, k, inObject) ==
    IF k > Len(lines) THEN FALSE
    ELSE IF Len(lines[k]) >= maxScanTokenSize THEN TRUE
    ELSE IF inObject /\ Contains(lines[k], "endobj") THEN FALSE
    ELSE ScannerFails(lines, k + 1, inObject \/ Contains(lines[k], " obj"))

\* the object of objNum read from the lines of the file after its offset
ReadLines(objNum, generation, lines) ==
    IF ScannerFails(lines, 1, FALSE) THEN NoObject
    ELSE With(TrimEndobj(ReadObjectContent(lines, 1, FALSE, "")),
              LAMBDA contentBytes :
                  ParseObject(objNum, generation, contentBytes,
                              ObjectDictionary(contentBytes)))

ReadObject(f, objNum, xrefEntry, headerMatches) ==
    IF ~headerMatches.ok THEN NoObject
    ELSE IF headerMatches.num # objNum \/ headerMatches.gen # xrefEntry.Generation
         THEN NoObject
    ELSE ReadLines(objNum, headerMatches.gen, ScanLines(FromOffset(f, xrefEntry.Offset)))

\* one pass of the loop of loadObjects, for the xref entry of objNum:
\* [st, load, obj]; st is "ok" or "panic", load tells whether obj is stored
LoadObject(f, objNum, xrefEntry) ==
    IF ~xrefEntry.InUse \/ xrefEntry.Offset = 0 THEN NoObject
    ELSE IF xrefEntry.Offset < 0 \/ xrefEntry.Offset >= Len(f) THEN NoObject
    ELSE ReadObject(f, objNum, xrefEntry,
                    objHeaderPattern(Slice(f, xrefEntry.Offset,
                                           Min({xrefEntry.Offset + 50, Len(f)}))))

\* every pass of the loop of loadObjects
LoadAll(f, xrefTable) == [n \in DOMAIN xrefTable |-> LoadObject(f, n, xrefTable[n])]

StoreLoaded(all) ==
    [st |-> IF \E n \in DOMAIN all : all[n].st = "panic" THEN "panic" ELSE "ok",
     Objects |-> [n \in {m \in DOMAIN all : all[m].load} |-> all[n].obj]]

\* loadObjects: [st, Objects]
loadObjects(f, xrefTable) == StoreLoaded(LoadAll(f, xrefTable))

-----------------------------------------------------------------------------
(* internal/document/pages.go *)

MaxDepth == 4          \* deepest page tree walked before the walk is cut off

\* utils.ParseFloat on the integers that the inputs use; 0 on a parse error
ParseFloat(s) == IF IsNumber(s) THEN Atoi(s) ELSE 0

NewPage(pageCounter) ==
    [PageNumber |-> pageCounter, Contents |-> "", Text |-> "",
     ResourcesDict |-> NoDict, Width |-> 0, Height |-> 0]

\* the page size of a parsed /MediaBox array
MediaBoxSize(mediaBox) ==
    IF Len(mediaBox) = 4
    THEN [st |-> "ok",
          Width |-> ParseFloat(mediaBox[3]) - ParseFloat(mediaBox[1]),
          Height |-> ParseFloat(mediaBox[4]) - ParseFloat(mediaBox[2])]
    ELSE [st |-> "ok", Width |-> 0, Height |-> 0]

\* the /MediaBox part of processPageTree: [st, Width, Height]
PageMediaBox(dict) ==
    IF ~Has(dict, "MediaBox") THEN [st |-> "ok", Width |-> 0, Height |-> 0]
    ELSE IF dict["MediaBox"].t # "s" THEN [st |-> "panic", Width |-> 0, Height |-> 0]
    ELSE MediaBoxSize(ParseArray(dict["MediaBox"].v))

\* the dictionary of the object that a reference names
ReferencedDict(objects, objNum) ==
    IF objNum # -1 /\ objNum \in DOMAIN objects
    THEN [st |-> "ok", dict |-> objects[objNum].Dictionary]
    ELSE [st |-> "ok", dict |-> NoDict]

ResourcesOf(objects, res) ==
    IF res.t = "d" THEN [st |-> "ok", dict |-> res.v]
    ELSE IF HasPrefix(res.v, "<<")
         THEN IF Len(res.v) < 4 THEN [st |-> "panic", dict |-> NoDict]
              ELSE [st |-> "ok",
                    dict |-> ParseDictionary(Slice(res.v, 2, Len(res.v) - 2), NoDict)]
    ELSE ReferencedDict(objects, ExtractReference(res.v))

\* the /Resources part of processPageTree: [st, dict]
PageResources(objects, dict) ==
    IF ~Has(dict, "Resources") THEN [st |-> "ok", dict |-> NoDict]
    ELSE ResourcesOf(objects, dict["Resources"])

\* the stream of the object that a reference names, followed by sep
ReferencedStream(objects, objNum, sep) ==
    IF objNum # -1 /\ objNum \in DOMAIN objects /\ objects[objNum].IsStream
    THEN objects[objNum].Stream \o sep ELSE ""

RECURSIVE JoinContents(_, _, _)
\* the loop over the references of a /Contents array
JoinContents(objects, contentRefs, k) ==
    IF k > Len(contentRefs) THEN ""
    ELSE ReferencedStream(objects, ExtractReference(contentRefs[k]), "\n")
         \o JoinContents(objects, contentRefs, k + 1)

\* the /Contents part of processPageTree
PageContents(objects, dict) ==
    IF ~Has(dict, "Contents") THEN ""
    ELSE IF dict["Contents"].t # "s" THEN ""
    ELSE IF HasPrefix(dict["Contents"].v, "[")
         THEN JoinContents(objects, ParseArray(dict["Contents"].v), 1)
    ELSE ReferencedStream(objects, ExtractReference(dict["Contents"].v), "")

RECURSIVE processPageTree(_, _, _, _, _)
RECURSIVE WalkKids(_, _, _, _, _, _)

\* a page tree node that adds no page
SameNode(pages, pageCounter) == [st |-> "ok", pages |-> pages, counter |-> pageCounter]

\* the /Type /Page branch of processPageTree
AppendPage(pages, pageCounter, box, res, contents) ==
    IF box.st = "panic" \/ res.st = "panic"
    THEN [st |-> "panic", pages |-> pages, counter |-> pageCounter]
    ELSE [st |-> "ok",
          pages |-> Append(pages, [NewPage(pageCounter) EXCEPT
                                      !.Width = box.Width, !.Height = box.Height,
                                      !.ResourcesDict = res.dict, !.Contents = contents]),
          counter |-> pageCounter + 1]

\* processPageTree: [st, pages, counter]; pages is doc.Pages, st is "ok",
\* "panic", or "overflow" when the walk is deeper than MaxDepth
processPageTree(objects, pages, objNum, pageCounter, depth) ==
    IF depth > MaxDepth
    THEN [st |-> "overflow", pages |-> pages, counter |-> pageCounter]
    ELSE IF objNum \notin DOMAIN objects THEN SameNode(pages, pageCounter)
    ELSE Only({
        IF ~Has(dict, "Type") \/ dict["Type"].t # "s" THEN SameNode(pages, pageCounter)
        ELSE IF dict["Type"].v = "/Pages"
             THEN IF ~Has(dict, "Kids") THEN SameNode(pages, pageCounter)
                  ELSE IF dict["Kids"].t # "s"
                       THEN [st |-> "panic", pages |-> pages, counter |-> pageCounter]
                  ELSE WalkKids(objects, pages, ParseArray(dict["Kids"].v), 1,
                                pageCounter, depth)
        ELSE IF dict["Type"].v = "/Page"
             THEN AppendPage(pages, pageCounter, PageMediaBox(dict),
                             PageResources(objects, dict), PageContents(objects, dict))
        ELSE SameNode(pages, pageCounter)
        : dict \in {objects[objNum].Dictionary}})

\* the loop over kidRefs in processPageTree, at kid k
WalkKids(objects, pages, kidRefs, k, pageCounter, depth) ==
    IF k > Len(kidRefs) THEN SameNode(pages, pageCounter)
    ELSE IF ExtractReference(kidRefs[k]) = -1
         THEN WalkKids(objects, pages, kidRefs, k + 1, pageCounter, depth)
    ELSE Only({
        IF sub.st # "ok" THEN sub
        ELSE WalkKids(objects, sub.pages, kidRefs, k + 1, sub.counter, depth)
        : sub \in {processPageTree(objects, pages, ExtractReference(kidRefs[k]),
                                   pageCounter, depth + 1)}})

\* the objects that the fallback of processPages can pick as the catalog
CatalogCandidates(d) ==
    {n \in DOMAIN d.Objects :
        /\ Has(d.Objects[n].Dictionary, "Type")
        /\ d.Objects[n].Dictionary["Type"].t = "s"
        /\ d.Objects[n].Dictionary["Type"].v = "/Catalog"}

\* the page tree that the catalog dictionary names
PagesOf(d, dict) ==
    IF ~Has(dict, "Pages") THEN [st |-> "ok", pages |-> d.Pages, counter |-> 1]
    ELSE IF dict["Pages"].t # "s" THEN [st |-> "panic", pages |-> d.Pages, counter |-> 1]
    ELSE IF ExtractReference(dict["Pages"].v) = -1
         THEN [st |-> "ok", pages |-> d.Pages, counter |-> 1]
    ELSE processPageTree(d.Objects, d.Pages, ExtractReference(dict["Pages"].v), 1, 0)

\* processPages once the catalog is chosen (catalog = 0: no catalog object)
processPages(d, catalog) ==
    IF catalog \notin DOMAIN d.Objects
    THEN [st |-> "ok", pages |-> d.Pages, counter |-> 1]
    ELSE PagesOf(d, d.Objects[catalog].Dictionary)

\* strings.Split(text, "\n")
RECURSIVE SplitNewline(_)
SplitNewline(text) ==
    IF ~Contains(text, "\n") THEN <<text>>
    ELSE <<Slice(text, 0, Index(text, "\n"))>>
         \o SplitNewline(Slice(text, Index(text, "\n") + 1, Len(text)))

RECURSIVE AllPageText(_, _)
AllPageText(pages, k) ==
    IF k > Len(pages) THEN "" ELSE pages[k].Text \o "\n" \o AllPageText(pages, k + 1)

maxChunkSize == 1000

RECURSIVE ChunkLinesDropping(_, _, _, _)
\* the loop of processTextChunks with the fault of resetting the chunk after
\* the line is written instead of before: the line that overflows a chunk is
\* lost. The properties of the chunks are checked against this variant
ChunkLinesDropping(lines, k, currentChunk, chunks) ==
    IF k > Len(lines)
    THEN (IF Len(currentChunk) > 0 THEN Append(chunks, currentChunk) ELSE chunks)
    ELSE IF Len(currentChunk) + Len(lines[k]) + 1 > maxChunkSize /\ Len(currentChunk) > 0
         THEN ChunkLinesDropping(lines, k + 1, "", Append(chunks, currentChunk))
    ELSE IF Len(currentChunk) > 0
         THEN ChunkLinesDropping(lines, k + 1, currentChunk \o "\n" \o lines[k], chunks)
    ELSE ChunkLinesDropping(lines, k + 1, lines[k], chunks)

RECURSIVE ChunkLines(_, _, _, _)
\* the loop of processTextChunks at line k
ChunkLines(lines, k, currentChunk, chunks) ==
    IF k > Len(lines)
    THEN (IF Len(currentChunk) > 0 THEN Append(chunks, currentChunk) ELSE chunks)
    ELSE IF Len(currentChunk) + Len(lines[k]) + 1 > maxChunkSize /\ Len(currentChunk) > 0
         THEN ChunkLines(lines, k + 1, lines[k], Append(chunks, currentChunk))
    ELSE IF Len(currentChunk) > 0
         THEN ChunkLines(lines, k + 1, currentChunk \o "\n" \o lines[k], chunks)
    ELSE ChunkLines(lines, k + 1, lines[k], chunks)

processTextChunks(d) ==
    ChunkLines(SplitNewline(AllPageText(d.Pages, 1)), 1, "", d.TextChunks)

processText(pages) ==
    [k \in 1..Len(pages) |->
        IF Len(pages[k].Contents) > 0
        THEN [pages[k] EXCEPT !.Text = pages[k].Contents]
        ELSE pages[k]]

NoFonts == [n \in {} |-> [Name |-> "", CodeToUnicode |-> <<>>]]

processFonts(fonts) ==
    [n \in DOMAIN fonts \cup {"/DefaultFont"} |->
        IF n = "/DefaultFont" THEN [Name |-> "DefaultFont", CodeToUnicode |-> <<>>]
        ELSE fonts[n]]

\* GetPageText: [err, text]
GetPageText(d, pageNum) ==
    IF pageNum < 1 \/ pageNum > Len(d.Pages) THEN [err |-> TRUE, text |-> ""]
    ELSE [err |-> FALSE, text |-> d.Pages[pageNum].Text]

GetPageCount(d) == Len(d.Pages)

-----------------------------------------------------------------------------
(* The input files: a catalog, a page tree of input.pages pages, one content
   stream, one font, a classic xref table, a trailer and startxref. *)

TrailerStyles == {"newline", "sameline", "comment"}
EntryEnds == {"lf", "splf", "crlf"}
StartxrefKinds == {"good", "early", "zero", "tail", "past", "beyond", "none"}
\* bytes of comment before the first object: none, more than the 1024 bytes of
\* the search windows, and enough for a file of more than 4096 bytes
PadSizes == {0, 1100, 4000}

Inputs ==
    {in \in [pages : 1..MaxPages, trailer : TrailerStyles, eol : EntryEnds,
             startxref : StartxrefKinds, pad : PadSizes] :
        \/ in.pad = 0
        \/ in.pad = 1100 /\ in.eol = "lf" /\ in.startxref \in {"good", "zero", "none"}
        \/ in.pad = 4000 /\ in.eol = "lf" /\ in.startxref = "good" /\ in.pages = 1}

Header == "%PDF-1.4\n"

\* a comment line of n bytes
PadLine(n) == IF n = 0 THEN "" ELSE "%" \o Rep("#", n - 2) \o "\n"

ContentOps == "BT /F1 12 Tf 100 700 Td (Hello) Tj ET"

RECURSIVE KidsList(_, _)
KidsList(first, n) ==
    IF n = 0 THEN ""
    ELSE Itoa(first) \o " 0 R" \o (IF n > 1 THEN " " ELSE "") \o KidsList(first + 1, n - 1)

ObjectText(num, body) == Itoa(num) \o " 0 obj\n" \o body \o "\nendobj\n"

\* object numbers: 1 catalog, 2 page tree root, 3..2+n pages, 3+n content, 4+n font
ContentNum(in) == 3 + in.pages
FontNum(in) == 4 + in.pages
ObjectCount(in) == 4 + in.pages

\* the stream of the content object: its data as written, with a line end
\* inside it, deflated and declared with an inline /DecodeParms, or with a
\* line of more than 64 KiB
StreamKinds == {"plain", "cr", "lf", "crlf", "parms", "long"}
StreamKind(in) == IF "stream" \in DOMAIN in THEN in.stream ELSE "plain"

StreamData(in) ==
    CASE StreamKind(in) = "plain" -> ContentOps
      [] StreamKind(in) = "cr" -> "BT /F1 12 Tf\r100 700 Td (Hello) Tj ET"
      [] StreamKind(in) = "lf" -> "BT /F1 12 Tf\n100 700 Td (Hello) Tj ET"
      [] StreamKind(in) = "crlf" -> "BT /F1 12 Tf\r\n100 700 Td (Hello) Tj ET"
      [] StreamKind(in) = "parms" -> String(Deflate(Bytes(ContentOps)))
      [] StreamKind(in) = "long" -> "BT (" \o Rep("A", maxScanTokenSize) \o ") Tj ET"

StreamFilter(in) ==
    IF StreamKind(in) = "parms"
    THEN " /Filter /FlateDecode /DecodeParms << /Predictor 1 >>" ELSE ""

ObjectBody(in, num) ==
    IF num = 1 THEN "<< /Type /Catalog /Pages 2 0 R >>"
    ELSE IF num = 2
         THEN "<< /Type /Pages /Kids [" \o KidsList(3, in.pages) \o "] /Count "
              \o Itoa(in.pages) \o " >>"
    ELSE IF num = ContentNum(in)
         THEN "<< /Length " \o Itoa(Len(StreamData(in))) \o StreamFilter(in)
              \o " >>\nstream\n" \o StreamData(in) \o "\nendstream"
    ELSE IF num = FontNum(in)
         THEN "<< /Type /Font /Subtype /Type1 /BaseFont /Helvetica /Encoding /WinAnsiEncoding >>"
    ELSE "<< /Type /Page /Parent 2 0 R /MediaBox [0 0 612 792] /Contents "
         \o Itoa(ContentNum(in)) \o " 0 R /Resources << /Font << /F1 "
         \o Itoa(FontNum(in)) \o " 0 R >> >> >>"

RECURSIVE BodyUpTo(_, _)
\* the objects 1..num, in file order
BodyUpTo(in, num) ==
    IF num = 0 THEN "" ELSE BodyUpTo(in, num - 1) \o ObjectText(num, ObjectBody(in, num))

\* the byte offset at which the header of object num begins
ObjectOffset(in, num) == Len(Header) + in.pad + Len(BodyUpTo(in, num - 1))

EntryEnd(in) ==
    CASE in.eol = "lf" -> "\n" [] in.eol = "splf" -> " \n" [] in.eol = "crlf" -> "\r\n"

\* the xref entry of the font object: exact, marked free, with the offset of
\* another object, with another generation than the object's header, or
\* malformed (a type that is neither n nor f)
EntryKinds == {"exact", "free", "other", "generation", "malformed"}
EntryKind(in) == IF "entries" \in DOMAIN in THEN in.entries ELSE "exact"

XRefEntry(in, num) ==
    IF num # FontNum(in) \/ EntryKind(in) = "exact"
    THEN ZeroPad(ObjectOffset(in, num), 10) \o " 00000 n"
    ELSE CASE EntryKind(in) = "free" -> ZeroPad(ObjectOffset(in, num), 10) \o " 00000 f"
           [] EntryKind(in) = "other" -> ZeroPad(ObjectOffset(in, 1), 10) \o " 00000 n"
           [] EntryKind(in) = "generation" ->
                  ZeroPad(ObjectOffset(in, num), 10) \o " 00001 n"
           [] EntryKind(in) = "malformed" ->
                  ZeroPad(ObjectOffset(in, num), 10) \o " 00000 x"

RECURSIVE XRefEntries(_, _)
XRefEntries(in, num) ==
    IF num = 0 THEN "0000000000 65535 f" \o EntryEnd(in)
    ELSE XRefEntries(in, num - 1) \o XRefEntry(in, num) \o EntryEnd(in)

XRefSection(in) ==
    "xref\n0 " \o Itoa(ObjectCount(in) + 1) \o "\n" \o XRefEntries(in, ObjectCount(in))

TrailerDict(in) == "<< /Size " \o Itoa(ObjectCount(in) + 1) \o " /Root 1 0 R >>"

TrailerSection(in) ==
    CASE in.trailer = "newline" -> "trailer\n" \o TrailerDict(in) \o "\n"
      [] in.trailer = "sameline" -> "trailer " \o TrailerDict(in) \o "\n"
      [] in.trailer = "comment" -> "trailer\n% trailer\n" \o TrailerDict(in) \o "\n"

\* the offset of the xref keyword
XRefOffset(in) == Len(Header) + in.pad + Len(BodyUpTo(in, ObjectCount(in)))

BeforeStartxref(in) ==
    Header \o PadLine(in.pad) \o BodyUpTo(in, ObjectCount(in)) \o XRefSection(in)
    \o TrailerSection(in)

\* the number written after startxref
DeclaredOffset(in) ==
    CASE in.startxref = "good" -> XRefOffset(in)
      [] in.startxref = "early" -> XRefOffset(in) - 3
      [] in.startxref = "zero" -> 0
      [] in.startxref = "tail" -> Len(BeforeStartxref(in))
      [] in.startxref = "past" -> Len(BeforeStartxref(in)) + 1000
      [] in.startxref = "beyond" -> Len(BeforeStartxref(in)) + 2000
      [] in.startxref = "none" -> 0

Render(in) ==
    BeforeStartxref(in)
    \o (IF in.startxref = "none" THEN ""
        ELSE "startxref\n" \o Itoa(DeclaredOffset(in)) \o "\n")
    \o "%%EOF\n"

\* the same file with the right number after startxref
Uncorrupted(in) == [in EXCEPT !.startxref = "good"]

-----------------------------------------------------------------------------
(* unnamed/part_001: PDFDocument and ParsePDF *)

NoObjects ==
    [n \in {} |-> [ObjectNumber |-> 0, Generation |-> 0, Content |-> "",
                   Dictionary |-> NoDict, Stream |-> "", IsStream |-> FALSE]]

NewDocument ==
    [Version |-> "", Objects |-> NoObjects, Trailer |-> NoDict, Pages |-> <<>>,
     TextChunks |-> <<>>, Fonts |-> NoFonts, XRefTable |-> NoXRef, XRefOffset |-> 0,
     RootCatalog |-> 0]

NoCall == [fn |-> "none"]

Init ==
    /\ input \in Inputs
    /\ file = Render(input)
    /\ pc = "identifyPDFVersion"
    /\ doc = NewDocument
    /\ ret = "none"
    /\ steps = <<>>
    /\ call = NoCall
    /\ out = NoCall

\* identifyPDFVersion: the header check and the version string
IdentifyPDFVersion ==
    /\ pc = "identifyPDFVersion"
    /\ IF HasPrefix(Slice(file, 0, 8), "%PDF-")
       THEN /\ doc' = [doc EXCEPT !.Version = Slice(file, 5, 8)]
            /\ pc' = "findLastXRefOffset"
            /\ ret' = ret
       ELSE /\ pc' = "done"
            /\ ret' = "error"
            /\ doc' = doc
    /\ UNCHANGED <<input, file, steps, call, out>>

\* findLastXRefOffset, and the choice between the xref path and the fallback
FindLastXRefOffset ==
    /\ pc = "findLastXRefOffset"
    /\ \E r \in {findLastXRefOffset(file, Len(file))} :
          IF r.err
          THEN /\ pc' = "fallbackLinearParse"
               /\ doc' = doc
          ELSE /\ pc' = "parseXRefAndTrailer"
               /\ doc' = [doc EXCEPT !.XRefOffset = r.offset]
    /\ UNCHANGED <<input, file, ret, steps, call, out>>

\* the second parseXRef, at the offset that findNearbyXref found
XRefRetried(retry, offset) ==
    [st |-> IF retry.err THEN "error" ELSE "ok", table |-> retry.table, offset |-> offset,
     steps |-> <<"parseXRef", "findNearbyXref", "parseXRef">>]

\* the recovery of parseXRefAndTrailer once findNearbyXref has returned near
XRefRecovered(f, xrefOffset, table, near) ==
    IF near.panic
    THEN [st |-> "panic", table |-> table, offset |-> xrefOffset,
          steps |-> <<"parseXRef", "findNearbyXref">>]
    ELSE IF near.found THEN XRefRetried(parseXRef(f, near.offset, table), near.offset)
    ELSE [st |-> "ok", table |-> rebuildXRefTable(f, table), offset |-> xrefOffset,
          steps |-> <<"parseXRef", "findNearbyXref", "rebuildXRefTable">>]

XRefParsed(f, xrefOffset, table, first) ==
    IF ~first.err
    THEN [st |-> "ok", table |-> first.table, offset |-> xrefOffset,
          steps |-> <<"parseXRef">>]
    ELSE XRefRecovered(f, xrefOffset, table, findNearbyXref(f, xrefOffset))

\* the xref half of parseXRefAndTrailer: [st, table, offset, steps]
LocateXRef(f, xrefOffset, table) ==
    XRefParsed(f, xrefOffset, table, parseXRef(f, xrefOffset, table))

\* the second parseTrailer, at the offset that findTrailerFromEnd found
TrailerRetried(retry) ==
    [st |-> IF retry.err THEN "error" ELSE "ok", trailer |-> retry.trailer,
     steps |-> <<"parseTrailer", "findTrailerFromEnd", "parseTrailer">>]

\* the recovery of parseXRefAndTrailer once findTrailerFromEnd has returned fromEnd
TrailerRecovered(f, trailer, fromEnd) ==
    IF fromEnd.found THEN TrailerRetried(parseTrailer(f, fromEnd.offset, trailer))
    ELSE [st |-> "error", trailer |-> trailer,
          steps |-> <<"parseTrailer", "findTrailerFromEnd">>]

TrailerParsed(f, trailer, first) ==
    IF ~first.err
    THEN [st |-> "ok", trailer |-> first.trailer, steps |-> <<"parseTrailer">>]
    ELSE TrailerRecovered(f, trailer, findTrailerFromEnd(f))

\* the trailer half of parseXRefAndTrailer: [st, trailer, steps]
LocateTrailer(f, xrefOffset, trailer) ==
    TrailerParsed(f, trailer, parseTrailer(f, xrefOffset, trailer))

\* the result of parseXRefAndTrailer after both halves
XRefThenTrailer(x, tr) ==
    [st |-> tr.st, table |-> x.table, trailer |-> tr.trailer, steps |-> x.steps \o tr.steps]

AfterXRef(f, d, x) ==
    IF x.st # "ok"
    THEN [st |-> x.st, table |-> x.table, trailer |-> d.Trailer, steps |-> x.steps]
    ELSE XRefThenTrailer(x, LocateTrailer(f, x.offset, d.Trailer))

\* parseXRefAndTrailer: [st, table, trailer, steps]
parseXRefAndTrailer(f, xrefOffset, d) ==
    AfterXRef(f, d, LocateXRef(f, xrefOffset, d.XRefTable))

\* ParsePDF up to loadObjects as a function of the file: [st, Objects], st
\* "doc" when the objects are loaded (or the fallback has run), else the failure
Loaded(l) == [st |-> IF l.st = "ok" THEN "doc" ELSE l.st, Objects |-> l.Objects]

LoadedWith(f, r) ==
    IF r.st # "ok" THEN [st |-> r.st, Objects |-> NoObjects]
    ELSE Loaded(loadObjects(f, r.table))

ParsedFrom(f, o) ==
    IF o.err THEN [st |-> "doc", Objects |-> NoObjects]
    ELSE LoadedWith(f, parseXRefAndTrailer(f, o.offset, NewDocument))

ParsedObjects(f) == ParsedFrom(f, findLastXRefOffset(f, Len(f)))

ParseXRefAndTrailer ==
    /\ pc = "parseXRefAndTrailer"
    /\ \E r \in {parseXRefAndTrailer(file, doc.XRefOffset, doc)} :
          /\ doc' = [doc EXCEPT !.XRefTable = r.table, !.Trailer = r.trailer]
          /\ steps' = steps \o r.steps
          /\ IF r.st = "ok"
             THEN pc' = "rootCatalog" /\ ret' = ret
             ELSE pc' = "done" /\ ret' = r.st
    /\ UNCHANGED <<input, file, call, out>>

\* ParsePDF: the /Root entry of the trailer gives doc.RootCatalog
RootCatalog ==
    /\ pc = "rootCatalog"
    /\ IF ~Has(doc.Trailer, "Root")
       THEN pc' = "loadObjects" /\ ret' = ret /\ doc' = doc
       ELSE IF doc.Trailer["Root"].t # "s"           \* rootRef.(string)
            THEN pc' = "done" /\ ret' = "panic" /\ doc' = doc
       ELSE /\ pc' = "loadObjects"
            /\ ret' = ret
            /\ doc' = IF ExtractReference(doc.Trailer["Root"].v) = -1 THEN doc
                      ELSE [doc EXCEPT !.RootCatalog = ExtractReference(doc.Trailer["Root"].v)]
    /\ UNCHANGED <<input, file, steps, call, out>>

LoadObjects ==
    /\ pc = "loadObjects"
    /\ \E r \in {loadObjects(file, doc.XRefTable)} :
          /\ doc' = [doc EXCEPT !.Objects = r.Objects]
          /\ IF r.st = "ok"
             THEN pc' = "processPages" /\ ret' = ret
             ELSE pc' = "done" /\ ret' = r.st
    /\ UNCHANGED <<input, file, steps, call, out>>

\* fallbackLinearParse up to processStreams: a new document, the version,
\* parseObjectsLinearly (which finds nothing) and processStreams (which does nothing)
FallbackLinearParse ==
    /\ pc = "fallbackLinearParse"
    /\ doc' = [NewDocument EXCEPT !.Version = Slice(file, 5, 8)]
    /\ steps' = Append(steps, "fallbackLinearParse")
    /\ pc' = "processPages"
    /\ UNCHANGED <<input, file, ret, call, out>>

\* processPages; with no /Root the catalog is the first /Catalog object that
\* the iteration over the object map meets
ProcessPages ==
    /\ pc = "processPages"
    /\ \E catalog \in (IF doc.RootCatalog # 0 THEN {doc.RootCatalog}
                       ELSE IF CatalogCandidates(doc) = {} THEN {0}
                       ELSE CatalogCandidates(doc)) :
          \E r \in {processPages(doc, catalog)} :
             /\ doc' = [doc EXCEPT !.Pages = r.pages]
             /\ IF r.st = "ok"
                THEN pc' = "processFonts" /\ ret' = ret
                ELSE pc' = "done" /\ ret' = "panic"
    /\ UNCHANGED <<input, file, steps, call, out>>

\* processFonts and handleMissingFonts
ProcessFonts ==
    /\ pc = "processFonts"
    /\ doc' = [doc EXCEPT !.Fonts = processFonts(doc.Fonts)]
    /\ pc' = "processText"
    /\ UNCHANGED <<input, file, ret, steps, call, out>>

ProcessText ==
    /\ pc = "processText"
    /\ doc' = [doc EXCEPT !.Pages = processText(doc.Pages)]
    /\ pc' = "processTextChunks"
    /\ UNCHANGED <<input, file, ret, steps, call, out>>

ProcessTextChunks ==
    /\ pc = "processTextChunks"
    /\ doc' = [doc EXCEPT !.TextChunks = processTextChunks(doc)]
    /\ pc' = "updateMetrics"
    /\ UNCHANGED <<input, file, ret, steps, call, out>>

\* updateMetrics / countObjects (objType.(string)) and the return of the document
UpdateMetrics ==
    /\ pc = "updateMetrics"
    /\ pc' = "done"
    /\ ret' = IF \E n \in DOMAIN doc.Objects :
                    /\ Has(doc.Objects[n].Dictionary, "Type")
                    /\ doc.Objects[n].Dictionary["Type"].t # "s"
              THEN "panic" ELSE "doc"
    /\ UNCHANGED <<input, file, doc, steps, call, out>>

Next ==
    \/ IdentifyPDFVersion
    \/ FindLastXRefOffset
    \/ ParseXRefAndTrailer
    \/ RootCatalog
    \/ LoadObjects
    \/ FallbackLinearParse
    \/ ProcessPages
    \/ ProcessFonts
    \/ ProcessText
    \/ ProcessTextChunks
    \/ UpdateMetrics

Spec == Init /\ [][Next]_vars

-----------------------------------------------------------------------------
(* ParsePDF on files whose content stream or whose xref entries vary *)

ObjectInputs ==
    {in \in [pages : {1}, trailer : TrailerStyles, eol : EntryEnds,
             startxref : StartxrefKinds, pad : {0}, stream : StreamKinds,
             entries : EntryKinds] :
        \/ in.stream = "plain" /\ in.entries = "exact"
        \/ /\ in.trailer = "comment"
           /\ in.eol = "lf"
           /\ in.startxref \in {"good", "zero"}
           /\ (in.stream = "plain" \/ in.entries = "exact")
           /\ (in.stream = "long" => in.startxref = "good")}

ObjectInit ==
    /\ input \in ObjectInputs
    /\ file = Render(input)
    /\ pc = "identifyPDFVersion"
    /\ doc = NewDocument
    /\ ret = "none"
    /\ steps = <<>>
    /\ call = NoCall
    /\ out = NoCall

ObjectSpec == ObjectInit /\ [][Next]_vars

-----------------------------------------------------------------------------
(* The document stage on loaded object tables: processPages, processFonts,
   processText, processTextChunks and updateMetrics run on a table whose
   dictionaries hold every value in full, as the PDF text of the value. *)

\* how a reference is written in /Kids: "3 0 R", the same with form feeds for
\* the white space, and the reference in brackets of its own
KidsStyles == {"space", "formfeed", "nested"}
ContentKinds == {"hello", "lines", "long"}
ResourceKinds == {"none", "inline", "open"}

TableInputs ==
    [pages : 0..MaxPages, kids : KidsStyles, levels : {1, 2}, root : {0, 1},
     contents : ContentKinds, resources : ResourceKinds]

KidRef(style, num) ==
    CASE style = "space" -> Itoa(num) \o " 0 R"
      [] style = "formfeed" -> Itoa(num) \o "\f0\fR"
      [] style = "nested" -> "[" \o Itoa(num) \o " 0 R]"

RECURSIVE KidRefs(_, _, _)
KidRefs(style, first, n) ==
    IF n = 0 THEN ""
    ELSE KidRef(style, first) \o (IF n > 1 THEN " " ELSE "") \o KidRefs(style, first + 1, n - 1)

\* a line of one byte more than a chunk may hold
LongLine == "(" \o Rep("A", maxChunkSize - 4) \o ") Tj"
ShortLine == "(" \o Rep("b", 395) \o ") Tj"

ContentText(kind) ==
    CASE kind = "hello" -> ContentOps
      [] kind = "lines" -> ShortLine \o "\n" \o ShortLine \o "\n" \o ShortLine
      [] kind = "long" -> LongLine

\* /Resources in full, or cut after its first two bytes
ResourceText(in) ==
    IF in.resources = "inline"
    THEN "<< /Font << /F1 " \o Itoa(4 + in.pages) \o " 0 R >> >>" ELSE "<<"

\* the number of the intermediate /Pages node of a two-level tree
NodeNum(in) == 5 + in.pages

PageDict(in) ==
    Put(Put(Put(NoDict, "Type", StrVal("/Page")), "MediaBox", StrVal("[0 0 612 792]")),
        "Contents", StrVal(Itoa(ContentNum(in)) \o " 0 R"))

TableDict(in, num) ==
    IF num = 1
    THEN Put(Put(NoDict, "Type", StrVal("/Catalog")), "Pages", StrVal("2 0 R"))
    ELSE IF num = 2
    THEN Put(Put(Put(NoDict, "Type", StrVal("/Pages")), "Count",
                 StrVal(Itoa(in.pages))), "Kids",
             StrVal("[" \o (IF in.levels = 2 THEN KidRef(in.kids, NodeNum(in))
                            ELSE KidRefs(in.kids, 3, in.pages)) \o "]"))
    ELSE IF num = NodeNum(in)
    THEN Put(Put(Put(NoDict, "Type", StrVal("/Pages")), "Parent", StrVal("2 0 R")),
             "Kids", StrVal("[" \o KidRefs(in.kids, 3, in.pages) \o "]"))
    ELSE IF num = ContentNum(in)
    THEN Put(NoDict, "Length", StrVal(Itoa(Len(ContentText(in.contents)))))
    ELSE IF num = FontNum(in)
    THEN Put(Put(NoDict, "Type", StrVal("/Font")), "Encoding", StrVal("/WinAnsiEncoding"))
    ELSE IF in.resources = "none" THEN PageDict(in)
    ELSE Put(PageDict(in), "Resources", StrVal(ResourceText(in)))

TableObject(in, num) ==
    [ObjectNumber |-> num, Generation |-> 0, Content |-> "", Dictionary |-> TableDict(in, num),
     Stream |-> IF num = ContentNum(in) THEN ContentText(in.contents) ELSE "",
     IsStream |-> num = ContentNum(in)]

ObjectTable(in) ==
    [num \in 1..(IF in.levels = 2 THEN NodeNum(in) ELSE FontNum(in)) |->
        TableObject(in, num)]

TableInit ==
    /\ input \in TableInputs
    /\ file = ""
    /\ pc = "processPages"
    /\ doc = [NewDocument EXCEPT !.Version = "1.4", !.Objects = ObjectTable(input),
                                 !.RootCatalog = input.root]
    /\ ret = "none"
    /\ steps = <<>>
    /\ call = NoCall
    /\ out = NoCall

TableNext ==
    \/ ProcessPages
    \/ ProcessFonts
    \/ ProcessText
    \/ ProcessTextChunks
    \/ UpdateMetrics

TableSpec == TableInit /\ [][TableNext]_vars

-----------------------------------------------------------------------------
(* Object tables with two /Type /Catalog objects and no usable /Root: the
   catalog of an earlier revision, whose page tree is empty, next to the
   current one *)

OldCatalogNum(in) == 6 + in.pages
OldPagesNum(in) == 7 + in.pages

OldRevision(in, num) ==
    [ObjectNumber |-> num, Generation |-> 0, Content |-> "",
     Dictionary |->
        IF num = OldCatalogNum(in)
        THEN Put(Put(NoDict, "Type", StrVal("/Catalog")), "Pages",
                 StrVal(Itoa(OldPagesNum(in)) \o " 0 R"))
        ELSE Put(Put(Put(NoDict, "Type", StrVal("/Pages")), "Count", StrVal("0")),
                 "Kids", StrVal("[]")),
     Stream |-> "", IsStream |-> FALSE]

TwoCatalogTable(in) ==
    [num \in (DOMAIN ObjectTable(in)) \cup {OldCatalogNum(in), OldPagesNum(in)} |->
        IF num \in DOMAIN ObjectTable(in) THEN ObjectTable(in)[num]
        ELSE OldRevision(in, num)]

CatalogInit ==
    /\ input \in {in \in TableInputs : in.root = 0}
    /\ file = ""
    /\ pc = "processPages"
    /\ doc = [NewDocument EXCEPT !.Version = "1.4", !.Objects = TwoCatalogTable(input)]
    /\ ret = "none"
    /\ steps = <<>>
    /\ call = NoCall
    /\ out = NoCall

CatalogSpec == CatalogInit /\ [][TableNext]_vars

-----------------------------------------------------------------------------
(* The process-wide logger (package utils) called from two goroutines.
   doc holds the package variables, pc and call each goroutine's position and
   call, ret what a call returned, out the last access to a package variable. *)

Goroutines == {1, 2}

LogError == 0
LogWarning == 1
LogInfo == 2
LogDebug == 3

\* var ( logLevel = LogWarning; logWriter = os.Stdout; loggerMutex; logTimestamp = true )
LoggerVars ==
    [logLevel |-> LogWarning, logWriter |-> "stdout", loggerMutex |-> 0,
     logTimestamp |-> TRUE]

\* the calls a goroutine makes: the levels are those the parser itself sets and logs at
LoggerCalls ==
    [fn : {"SetLogLevel"}, level : {LogError, LogDebug}]
        \cup [fn : {"GetLogLevel", "NewLogger"}]
        \cup [fn : {"SetLogWriter"}, writer : {"stdout", "file"}]
        \cup [fn : {"EnableTimestamp"}, enable : BOOLEAN]
        \cup [fn : {"Logf"}, level : {LogWarning, LogDebug}]

\* goroutine g reads or writes the package variable name
Access(g, name, write) ==
    [fn |-> "access", by |-> g, name |-> name, write |-> write,
     locked |-> doc.loggerMutex = g]

LoggerInit ==
    /\ input = NoCall
    /\ file = ""
    /\ pc = [g \in Goroutines |-> "idle"]
    /\ doc = LoggerVars
    /\ ret = [g \in Goroutines |-> "none"]
    /\ steps = <<>>
    /\ call = [g \in Goroutines |-> NoCall]
    /\ out = NoCall

\* a goroutine enters one of the package's functions
Call(g) ==
    /\ pc[g] = "idle"
    /\ \E c \in LoggerCalls :
          /\ call' = [call EXCEPT ![g] = c]
          /\ pc' = [pc EXCEPT ![g] = IF c.fn = "NewLogger" THEN "NewLogger" ELSE "Lock"]
    /\ ret' = [ret EXCEPT ![g] = "none"]
    /\ UNCHANGED <<input, file, doc, steps, out>>

\* loggerMutex.Lock()
Lock(g) ==
    /\ pc[g] = "Lock"
    /\ doc.loggerMutex = 0
    /\ doc' = [doc EXCEPT !.loggerMutex = g]
    /\ pc' = [pc EXCEPT ![g] = call[g].fn]
    /\ UNCHANGED <<input, file, ret, steps, call, out>>

\* defer loggerMutex.Unlock()
Unlock(g) ==
    /\ pc[g] = "Unlock"
    /\ doc' = [doc EXCEPT !.loggerMutex = 0]
    /\ pc' = [pc EXCEPT ![g] = "idle"]
    /\ call' = [call EXCEPT ![g] = NoCall]
    /\ UNCHANGED <<input, file, ret, steps, out>>

SetLogLevel(g) ==
    /\ pc[g] = "SetLogLevel"
    /\ doc' = [doc EXCEPT !.logLevel = call[g].level]
    /\ out' = Access(g, "logLevel", TRUE)
    /\ pc' = [pc EXCEPT ![g] = "Unlock"]
    /\ UNCHANGED <<input, file, ret, steps, call>>

GetLogLevel(g) ==
    /\ pc[g] = "GetLogLevel"
    /\ ret' = [ret EXCEPT ![g] = doc.logLevel]
    /\ out' = Access(g, "logLevel", FALSE)
    /\ pc' = [pc EXCEPT ![g] = "Unlock"]
    /\ UNCHANGED <<input, file, doc, steps, call>>

SetLogWriter(g) ==
    /\ pc[g] = "SetLogWriter"
    /\ doc' = [doc EXCEPT !.logWriter = call[g].writer]
    /\ out' = Access(g, "logWriter", TRUE)
    /\ pc' = [pc EXCEPT ![g] = "Unlock"]
    /\ UNCHANGED <<input, file, ret, steps, call>>

EnableTimestamp(g) ==
    /\ pc[g] = "EnableTimestamp"
    /\ doc' = [doc EXCEPT !.logTimestamp = call[g].enable]
    /\ out' = Access(g, "logTimestamp", TRUE)
    /\ pc' = [pc EXCEPT ![g] = "Unlock"]
    /\ UNCHANGED <<input, file, ret, steps, call>>

\* if level <= logLevel
LogfLevel(g) ==
    /\ pc[g] = "Logf"
    /\ out' = Access(g, "logLevel", FALSE)
    /\ pc' = [pc EXCEPT ![g] = IF call[g].level <= doc.logLevel THEN "LogfTimestamp"
                               ELSE "Unlock"]
    /\ UNCHANGED <<input, file, doc, ret, steps, call>>

\* the prefix of the level, after the time when logTimestamp is set
LogfTimestamp(g) ==
    /\ pc[g] = "LogfTimestamp"
    /\ ret' = [ret EXCEPT ![g] =
                  (IF doc.logTimestamp THEN "2006-01-02 15:04:05.000 " ELSE "")
                      \o (IF call[g].level = LogWarning THEN "WARNING: " ELSE "DEBUG: ")]
    /\ out' = Access(g, "logTimestamp", FALSE)
    /\ pc' = [pc EXCEPT ![g] = "LogfWrite"]
    /\ UNCHANGED <<input, file, doc, steps, call>>

\* fmt.Fprintf(logWriter, prefix+format+"\n", args...)
LogfWrite(g) ==
    /\ pc[g] = "LogfWrite"
    /\ file' = doc.logWriter \o ": " \o ret[g] \o "\n"
    /\ out' = Access(g, "logWriter", FALSE)
    /\ pc' = [pc EXCEPT ![g] = "Unlock"]
    /\ UNCHANGED <<input, doc, ret, steps, call>>

\* &Logger{prefix: prefix, level: logLevel}
NewLogger(g) ==
    /\ pc[g] = "NewLogger"
    /\ ret' = [ret EXCEPT ![g] = doc.logLevel]
    /\ out' = Access(g, "logLevel", FALSE)
    /\ pc' = [pc EXCEPT ![g] = "idle"]
    /\ call' = [call EXCEPT ![g] = NoCall]
    /\ UNCHANGED <<input, file, doc, steps>>

LoggerNext ==
    \E g \in Goroutines :
        \/ Call(g)
        \/ Lock(g)
        \/ Unlock(g)
        \/ SetLogLevel(g)
        \/ GetLogLevel(g)
        \/ SetLogWriter(g)
        \/ EnableTimestamp(g)
        \/ LogfLevel(g)
        \/ LogfTimestamp(g)
        \/ LogfWrite(g)
        \/ NewLogger(g)

LoggerSpec == LoggerInit /\ [][LoggerNext]_vars

-----------------------------------------------------------------------------
(* The text extractor (package text): extractTextFromPage on a page whose
   content stream is one text object. The operators of the stream are taken
   as its whitespace-separated tokens; the stream holds no TJ array.
   Coordinates and the leading are held in tenths of a unit, so that the
   advance len(text) * FontSize * 0.6 is an integer. *)

MaxOps == 4            \* operators of a text object after its first Tf

TextOperators ==
    {"/F2 10 Tf", "0 100 Td", "0 -20 Td", "0 -15 TD", "T*", "1 0 0 1 50 700 Tm",
     "(a) Tj", "(b) Tj"}

TextInputs == UNION {[1..n -> TextOperators] : n \in 0..MaxOps}

RECURSIVE JoinOperators(_, _)
JoinOperators(ops, k) ==
    IF k > Len(ops) THEN "" ELSE " " \o ops[k] \o JoinOperators(ops, k + 1)

TextObject(ops) == "BT /F1 12 Tf" \o JoinOperators(ops, 1) \o " ET"

\* [-+]?[0-9]*\.?[0-9]+ on the integers that the inputs use
IsFloat(tok) ==
    IF HasPrefix(tok, "-") \/ HasPrefix(tok, "+") THEN IsNumber(Slice(tok, 1, Len(tok)))
    ELSE IsNumber(tok)

\* utils.ParseFloat of a matched number, in tenths
Tenths(tok) ==
    IF HasPrefix(tok, "-") THEN 0 - 10 * Atoi(Slice(tok, 1, Len(tok)))
    ELSE IF HasPrefix(tok, "+") THEN 10 * Atoi(Slice(tok, 1, Len(tok)))
    ELSE 10 * Atoi(tok)

\* the n tokens before token j are numbers
Operands(toks, j, n) == j > n /\ \A k \in 1..n : IsFloat(toks[j - k])

\* textState after "Reset text state for each text block", with no run emitted
NewTextState(st) ==
    [st EXCEPT !.Tm4 = 0, !.Tm5 = 0, !.Tlm4 = 0, !.Tlm5 = 0]

InitialTextState ==
    [Tm4 |-> 0, Tm5 |-> 0, Tlm4 |-> 0, Tlm5 |-> 0, FontSize |-> 0, FontName |-> "",
     Leading |-> 0, textPositions |-> <<>>]

isOctal(b) == b \in {"0", "1", "2", "3", "4", "5", "6", "7"}

\* utils.ParseOctal: strconv.ParseInt(str, 8, 64) on a string of octal digits
RECURSIVE ParseOctal(_)
ParseOctal(str) ==
    IF str = "" THEN 0
    ELSE 8 * ParseOctal(SubSeq(str, 1, Len(str) - 1)) + DigitVal(SubSeq(str, Len(str), Len(str)))

\* the rune written for a code: font.CodeToUnicode[code] if there is one
MappedRune(code, codeToUnicode) ==
    IF code \in DOMAIN codeToUnicode THEN codeToUnicode[code] ELSE code

RECURSIVE DecodeFrom(_, _, _)
\* the loop of decodeText at byte i: the runes written from there on
DecodeFrom(textBytes, i, codeToUnicode) ==
    IF i >= Len(textBytes) THEN <<>>
    ELSE IF At(textBytes, i) = "\\" /\ i + 1 < Len(textBytes)
    THEN CASE At(textBytes, i + 1) = "n" ->
                  <<10>> \o DecodeFrom(textBytes, i + 2, codeToUnicode)
           [] At(textBytes, i + 1) = "r" ->
                  <<13>> \o DecodeFrom(textBytes, i + 2, codeToUnicode)
           [] At(textBytes, i + 1) = "t" ->
                  <<9>> \o DecodeFrom(textBytes, i + 2, codeToUnicode)
           [] At(textBytes, i + 1) = "b" ->
                  <<8>> \o DecodeFrom(textBytes, i + 2, codeToUnicode)
           [] At(textBytes, i + 1) = "f" ->
                  <<12>> \o DecodeFrom(textBytes, i + 2, codeToUnicode)
           [] isOctal(At(textBytes, i + 1)) /\ i + 3 < Len(textBytes)
              /\ isOctal(At(textBytes, i + 2)) /\ isOctal(At(textBytes, i + 3)) ->
                  \* i += 3 in the case, and i += 2 after the switch
                  <<MappedRune(ParseOctal(Slice(textBytes, i + 1, i + 4)), codeToUnicode)>>
                  \o DecodeFrom(textBytes, i + 5, codeToUnicode)
           [] OTHER ->
                  <<Ord(At(textBytes, i + 1))>> \o DecodeFrom(textBytes, i + 2, codeToUnicode)
    ELSE <<MappedRune(Ord(At(textBytes, i)), codeToUnicode)>>
         \o DecodeFrom(textBytes, i + 1, codeToUnicode)

\* decodeText(textBytes, font): the runes of the result
decodeText(textBytes, codeToUnicode) == DecodeFrom(textBytes, 0, codeToUnicode)

\* the text position of a run and the advance of Tm[4] after it
ShowText(st, text) ==
    [st EXCEPT !.textPositions =
                   Append(@, [X |-> st.Tm4, Y |-> st.Tm5, FontSize |-> st.FontSize,
                              Text |-> text, FontName |-> st.FontName]),
               !.Tm4 = @ + Len(text) * st.FontSize * 6]

MoveLine(st, tx, ty) ==
    [st EXCEPT !.Tlm4 = @ + tx, !.Tlm5 = @ + ty, !.Tm4 = st.Tlm4 + tx, !.Tm5 = st.Tlm5 + ty]

\* what one match of the regular expression of operator kind does, the match
\* ending at token j
TextOperator(kind, st, toks, j) ==
    IF toks[j] # kind THEN st
    ELSE CASE kind = "Tm" ->
                IF Operands(toks, j, 6)
                THEN [st EXCEPT !.Tm4 = Tenths(toks[j - 2]), !.Tm5 = Tenths(toks[j - 1]),
                                !.Tlm4 = Tenths(toks[j - 2]), !.Tlm5 = Tenths(toks[j - 1])]
                ELSE st
           [] kind = "Td" ->
                IF Operands(toks, j, 2)
                THEN MoveLine(st, Tenths(toks[j - 2]), Tenths(toks[j - 1]))
                ELSE st
           [] kind = "TD" ->
                IF Operands(toks, j, 2)
                THEN MoveLine([st EXCEPT !.Leading = 0 - Tenths(toks[j - 1])],
                              Tenths(toks[j - 2]), Tenths(toks[j - 1]))
                ELSE st
           [] kind = "T*" -> MoveLine(st, 0, 0 - st.Leading)
           [] kind = "Tf" ->
                IF Operands(toks, j, 1) /\ j > 2 /\ HasPrefix(toks[j - 2], "/")
                THEN [st EXCEPT !.FontName = Slice(toks[j - 2], 1, Len(toks[j - 2])),
                                !.FontSize = Atoi(toks[j - 1])]
                ELSE st
           [] kind = "Tj" ->
                IF j > 1 /\ HasPrefix(toks[j - 1], "(") /\ HasSuffix(toks[j - 1], ")")
                THEN ShowText(st, String(decodeText(Slice(toks[j - 1], 1, Len(toks[j - 1]) - 1),
                                                <<>>)))
                ELSE st
           [] OTHER -> st

\* the order in which extractTextWithPositioning runs its regular expressions
OperatorKinds == <<"Tm", "Td", "TD", "T*", "Tf", "Tj">>

RECURSIVE AllMatches(_, _, _, _)
\* for _, m := range regex.FindAll(textBlock, -1), for one kind of operator
AllMatches(kind, st, toks, j) ==
    IF j > Len(toks) THEN st
    ELSE Only({AllMatches(kind, next, toks, j + 1) :
                  next \in {TextOperator(kind, st, toks, j)}})

RECURSIVE AllKinds(_, _, _)
AllKinds(st, toks, k) ==
    IF k > Len(OperatorKinds) THEN st
    ELSE Only({AllKinds(next, toks, k + 1) :
                  next \in {AllMatches(OperatorKinds[k], st, toks, 1)}})

RECURSIVE TextBlocks(_, _, _)
\* for _, textBlock := range BT(.*?)ET matches, from byte i of the contents
TextBlocks(st, contents, i) ==
    IF IndexFrom(contents, "BT", i) = -1
       \/ IndexFrom(contents, "ET", IndexFrom(contents, "BT", i) + 2) = -1
    THEN st
    ELSE TextBlocks(AllKinds(NewTextState(st),
                             Fields(Slice(contents, IndexFrom(contents, "BT", i),
                                          IndexFrom(contents, "ET",
                                                    IndexFrom(contents, "BT", i) + 2) + 2)),
                             1),
                    contents,
                    IndexFrom(contents, "ET", IndexFrom(contents, "BT", i) + 2) + 2)

\* int(x) of the quotient a / b, b > 0: truncation towards zero
Truncate(a, b) == IF a >= 0 THEN a \div b ELSE 0 - ((0 - a) \div b)

RECURSIVE TotalFontSize(_, _)
TotalFontSize(positions, k) ==
    IF k > Len(positions) THEN 0 ELSE positions[k].FontSize + TotalFontSize(positions, k + 1)

\* int(pos.Y / lineHeight), lineHeight = totalFontSize / len(positions) * 1.5
RowKey(positions, k) ==
    Truncate(positions[k].Y * Len(positions), 15 * TotalFontSize(positions, 1))

\* position i comes before position j in the rebuilt slice: rows by
\* descending key, a row by X (equal X: in the order of appending)
ComesBefore(positions, i, j) ==
    \/ RowKey(positions, i) > RowKey(positions, j)
    \/ /\ RowKey(positions, i) = RowKey(positions, j)
       /\ \/ positions[i].X < positions[j].X
          \/ positions[i].X = positions[j].X /\ i < j

\* SortTextPositions, which rewrites the caller's slice in place
SortTextPositions(positions) ==
    [r \in 1..Len(positions) |->
        positions[CHOOSE i \in 1..Len(positions) :
                      Cardinality({j \in 1..Len(positions) : ComesBefore(positions, j, i)})
                          = r - 1]]

extractTextWithPositioning(contents) ==
    SortTextPositions(TextBlocks(InitialTextState, contents, 0).textPositions)

RECURSIVE OrderedText(_, _)
\* the loop of ExtractOrderedText from position i on
OrderedText(positions, i) ==
    IF i > Len(positions) THEN ""
    ELSE (IF i = 1 THEN ""
          ELSE IF positions[i].Y - positions[i - 1].Y < 0 - 50
                  \/ positions[i].Y - positions[i - 1].Y > 50
               THEN "\n"
          ELSE IF positions[i].X - (positions[i - 1].X
                     + Len(positions[i - 1].Text) * positions[i - 1].FontSize * 6)
                  > positions[i].FontSize * 20
               THEN " "
          ELSE "")
         \o positions[i].Text \o OrderedText(positions, i + 1)

ExtractOrderedText(positions) == OrderedText(positions, 1)

ExtractInit ==
    /\ input \in TextInputs
    /\ file = ""
    /\ pc = "extractTextFromPage"
    /\ doc = [Contents |-> TextObject(input), TextPositions |-> <<>>]
    /\ ret = "none"
    /\ steps = <<>>
    /\ call = NoCall
    /\ out = NoCall

ExtractTextFromPage ==
    /\ pc = "extractTextFromPage"
    /\ \E positions \in {extractTextWithPositioning(doc.Contents)} :
          /\ doc' = [doc EXCEPT !.TextPositions = positions]
          /\ out' = [fn |-> "extractTextFromPage", r |-> ExtractOrderedText(positions)]
    /\ pc' = "done"
    /\ UNCHANGED <<input, file, ret, steps, call>>

ExtractNext == ExtractTextFromPage

ExtractSpec == ExtractInit /\ [][ExtractNext]_vars

-----------------------------------------------------------------------------
(* rebuildXRefTable on files with repeated object headers *)

MaxLines == 4          \* lines of a scanned file

\* the lines of the scanned files: headers of object 1 in two generations,
\* alone on a line and followed by the dictionary, and lines without a header
RebuildLines ==
    {"1 0 obj", "1 1 obj", "2 0 obj", "<< /Kind /Old >>",
     "1 0 obj << /Type /Catalog /Pages 2 0 R >>", "endobj"}

RebuildInputs == UNION {[1..n -> RebuildLines] : n \in 0..MaxLines}

RECURSIVE LinesFile(_, _)
\* the file made of the lines from k on, each ended by LF
LinesFile(lines, k) ==
    IF k > Len(lines) THEN "" ELSE lines[k] \o "\n" \o LinesFile(lines, k + 1)

RebuildInit ==
    /\ input \in RebuildInputs
    /\ file = LinesFile(input, 1)
    /\ pc = "rebuildXRefTable"
    /\ doc = [XRefTable |-> <<>>]
    /\ ret = "none"
    /\ steps = <<>>
    /\ call = NoCall
    /\ out = NoCall

\* rebuildXRefTable(file, doc), which returns nil when the scanner met no error
RebuildXRefTable ==
    /\ pc = "rebuildXRefTable"
    /\ doc' = [doc EXCEPT !.XRefTable = rebuildXRefTable(file, doc.XRefTable)]
    /\ pc' = "done"
    /\ ret' = "nil"
    /\ UNCHANGED <<input, file, steps, call, out>>

RebuildNext == RebuildXRefTable

RebuildSpec == RebuildInit /\ [][RebuildNext]_vars

-----------------------------------------------------------------------------
(* findLastXRefOffset on files with several startxref sections *)

MaxSections == 3       \* sections written after the header of a file

\* the sections of the files: startxref with a number, startxref without one,
\* and a trailer dictionary
TailSections ==
    {"startxref\n9\n%%EOF\n", "startxref\n120\n%%EOF\n", "startxref\n",
     "trailer\n<< /Size 1 >>\n"}

\* the sections of a file, and the bytes of comment after the first of them
StartxrefInputs ==
    [sections : UNION {[1..n -> TailSections] : n \in 0..MaxSections}, pad : {0, 1100}]

RECURSIVE SectionsFile(_, _, _)
\* the sections from k on, with a comment of pad bytes after the first
SectionsFile(sections, pad, k) ==
    IF k > Len(sections) THEN ""
    ELSE sections[k] \o (IF k = 1 THEN PadLine(pad) ELSE "")
         \o SectionsFile(sections, pad, k + 1)

StartxrefInit ==
    /\ input \in StartxrefInputs
    /\ file = Header \o SectionsFile(input.sections, input.pad, 1)
    /\ pc = "findLastXRefOffset"
    /\ doc = NewDocument
    /\ ret = "none"
    /\ steps = <<>>
    /\ call = NoCall
    /\ out = NoCall

StartxrefNext == FindLastXRefOffset

StartxrefSpec == StartxrefInit /\ [][StartxrefNext]_vars

-----------------------------------------------------------------------------
(* unnamed/part_002: parseCMap (package fonts) *)

HexDigits == "0123456789ABCDEF"

\* [0-9A-F]
IsHex(c) == \E k \in 1..16 : SubSeq(HexDigits, k, k) = c

HexVal(c) == Only({k \in 1..16 : SubSeq(HexDigits, k, k) = c}) - 1

\* strconv.ParseInt(s, 16, 32) on a string of hex digits that fits 32 bits
RECURSIVE ParseHex(_)
ParseHex(s) ==
    IF s = "" THEN 0
    ELSE 16 * ParseHex(SubSeq(s, 1, Len(s) - 1)) + HexVal(SubSeq(s, Len(s), Len(s)))

NoGroup == [ok |-> FALSE, val |-> 0, next |-> 0]

\* one match of  <([0-9A-F]+)>  starting at i: the value and the place after it
HexGroupAt(str, i) ==
    IF HasAt(str, "<", i) /\ RunEnd(str, i + 1, IsHex) > i + 1
       /\ HasAt(str, ">", RunEnd(str, i + 1, IsHex))
    THEN [ok |-> TRUE, val |-> ParseHex(Slice(str, i + 1, RunEnd(str, i + 1, IsHex))),
          next |-> RunEnd(str, i + 1, IsHex) + 1]
    ELSE NoGroup

\* <([0-9A-F]+)> after at least one space that starts at i
SpacedGroupAt(str, i) ==
    IF RunEnd(str, i, IsSpace) > i THEN HexGroupAt(str, RunEnd(str, i, IsSpace))
    ELSE NoGroup

\* one match of  <([0-9A-F]+)>\s+<([0-9A-F]+)>  starting at i
mapRegex(str, i) ==
    With(HexGroupAt(str, i), LAMBDA src :
    With(IF src.ok THEN SpacedGroupAt(str, src.next) ELSE NoGroup, LAMBDA dest :
        [ok |-> dest.ok, src |-> src.val, dest |-> dest.val, next |-> dest.next]))

\* one match of  <([0-9A-F]+)>\s+<([0-9A-F]+)>\s+<([0-9A-F]+)>  starting at i
rangeRegex(str, i) ==
    With(mapRegex(str, i), LAMBDA m :
    With(IF m.ok THEN SpacedGroupAt(str, m.next) ELSE NoGroup, LAMBDA destStart :
        [ok |-> destStart.ok, start |-> m.src, end |-> m.dest,
         destStart |-> destStart.val, next |-> destStart.next]))

\* the places e from b on where  (.*?)  can end:  b..e  holds no newline and
\* \s+ and the closing keyword follow
BodyEnds(data, b, closing) ==
    {e \in b..Len(data) :
        /\ \A j \in b..(e - 1) : At(data, j) # "\n"
        /\ RunEnd(data, e, IsSpace) > e
        /\ HasAt(data, closing, RunEnd(data, e, IsSpace))}

\* one match of  opening\s+(.*?)\s+closing  starting at i, where . matches
\* no newline: the captured bytes and the place after the match
BlockAt(data, i, opening, closing) ==
    With(i + Len(opening), LAMBDA a :
    With(RunEnd(data, i + Len(opening), IsSpace), LAMBDA b :
        IF ~HasAt(data, opening, i) \/ b = a
        THEN [ok |-> FALSE, body |-> "", next |-> 0]
        ELSE IF BodyEnds(data, b, closing) # {}
        THEN With(Min(BodyEnds(data, b, closing)), LAMBDA e :
                [ok |-> TRUE, body |-> Slice(data, b, e),
                 next |-> RunEnd(data, e, IsSpace) + Len(closing)])
        ELSE IF b >= a + 2 /\ HasAt(data, closing, b)
        THEN [ok |-> TRUE, body |-> "", next |-> b + Len(closing)]
        ELSE [ok |-> FALSE, body |-> "", next |-> 0]))

RECURSIVE FindAllBlocks(_, _, _, _)
\* FindAllSubmatch(cmapData, -1) of a block pattern from place p on: the
\* captured bytes of the matches, which do not overlap
FindAllBlocks(data, p, opening, closing) ==
    IF \A i \in p..(Len(data) - 1) : ~BlockAt(data, i, opening, closing).ok
    THEN <<>>
    ELSE With(BlockAt(data, Min({i \in p..(Len(data) - 1) :
                                    BlockAt(data, i, opening, closing).ok}),
                      opening, closing),
              LAMBDA m : <<m.body>> \o FindAllBlocks(data, m.next, opening, closing))

RECURSIVE PutMappings(_, _, _)
\* the loop over the matches of mapRegex in the bytes of a bfchar block
PutMappings(mappings, p, codeToUnicode) ==
    IF \A i \in p..(Len(mappings) - 1) : ~mapRegex(mappings, i).ok THEN codeToUnicode
    ELSE With(mapRegex(mappings, Min({i \in p..(Len(mappings) - 1) :
                                         mapRegex(mappings, i).ok})),
              LAMBDA m : PutMappings(mappings, m.next, Put(codeToUnicode, m.src, m.dest)))

RECURSIVE PutRange(_, _, _, _, _)
\* the loop over the codes i of a range from start
PutRange(i, start, end, destStart, codeToUnicode) ==
    IF i > end THEN codeToUnicode
    ELSE PutRange(i + 1, start, end, destStart,
                  Put(codeToUnicode, i, destStart + (i - start)))

RECURSIVE PutRanges(_, _, _)
\* the loop over the matches of rangeRegex in the bytes of a bfrange block
PutRanges(ranges, p, codeToUnicode) ==
    IF \A i \in p..(Len(ranges) - 1) : ~rangeRegex(ranges, i).ok THEN codeToUnicode
    ELSE With(rangeRegex(ranges, Min({i \in p..(Len(ranges) - 1) :
                                        rangeRegex(ranges, i).ok})),
              LAMBDA m : PutRanges(ranges, m.next,
                                   PutRange(m.start, m.start, m.end, m.destStart,
                                            codeToUnicode)))

RECURSIVE PutCharBlocks(_, _, _)
PutCharBlocks(matches, k, codeToUnicode) ==
    IF k > Len(matches) THEN codeToUnicode
    ELSE PutCharBlocks(matches, k + 1, PutMappings(matches[k], 0, codeToUnicode))

RECURSIVE PutRangeBlocks(_, _, _)
PutRangeBlocks(rangeMatches, k, codeToUnicode) ==
    IF k > Len(rangeMatches) THEN codeToUnicode
    ELSE PutRangeBlocks(rangeMatches, k + 1, PutRanges(rangeMatches[k], 0, codeToUnicode))

\* parseCMap(cmapData, font): font.CodeToUnicode after the bfchar sections and
\* then the bfrange sections
parseCMap(cmapData, codeToUnicode) ==
    PutRangeBlocks(FindAllBlocks(cmapData, 0, "beginbfrange", "endbfrange"), 1,
        PutCharBlocks(FindAllBlocks(cmapData, 0, "beginbfchar", "endbfchar"), 1,
                      codeToUnicode))

MaxBlocks == 2         \* blocks of a CMap
MaxEntries == 2        \* entries of a block

\* entries <src> <dest> of bfchar blocks and <start> <end> <destStart> of
\* bfrange blocks, over the codes 1..3
CharEntries == {<<1, 65>>, <<1, 66>>, <<2, 67>>}
RangeEntries == {<<1, 2, 97>>, <<2, 3, 80>>}

\* a block: its kind, its entries, and what stands between two entries
CMapBlocks ==
    {b \in [kind : {"bfchar"}, sep : {" ", "\n"},
            entries : UNION {[1..n -> CharEntries] : n \in 1..MaxEntries}]
           \cup [kind : {"bfrange"}, sep : {" ", "\n"},
                 entries : UNION {[1..n -> RangeEntries] : n \in 1..MaxEntries}] :
        Len(b.entries) = 1 => b.sep = "\n"}

CMapInputs == UNION {[1..n -> CMapBlocks] : n \in 0..MaxBlocks}

Hex2(n) == SubSeq(HexDigits, (n \div 16) + 1, (n \div 16) + 1)
           \o SubSeq(HexDigits, (n % 16) + 1, (n % 16) + 1)

\* <xx> for a code and <00xx> for a character
SrcHex(n) == "<" \o Hex2(n) \o ">"
DestHex(n) == "<00" \o Hex2(n) \o ">"

EntryText(entry) ==
    IF Len(entry) = 2 THEN SrcHex(entry[1]) \o " " \o DestHex(entry[2])
    ELSE SrcHex(entry[1]) \o " " \o SrcHex(entry[2]) \o " " \o DestHex(entry[3])

RECURSIVE EntriesText(_, _, _)
EntriesText(entries, sep, k) ==
    IF k > Len(entries) THEN ""
    ELSE (IF k = 1 THEN "" ELSE sep) \o EntryText(entries[k])
         \o EntriesText(entries, sep, k + 1)

\* a block as a CMap stream writes it
BlockText(b) ==
    Itoa(Len(b.entries)) \o " begin" \o b.kind \o "\n"
    \o EntriesText(b.entries, b.sep, 1) \o "\nend" \o b.kind \o "\n"

RECURSIVE CMapStream(_, _)
CMapStream(blocks, k) ==
    IF k > Len(blocks) THEN "endcmap\n"
    ELSE BlockText(blocks[k]) \o CMapStream(blocks, k + 1)

CMapInit ==
    /\ input \in CMapInputs
    /\ file = "begincmap\n" \o CMapStream(input, 1)
    /\ pc = "parseCMap"
    /\ doc = [CodeToUnicode |-> <<>>]
    /\ ret = "none"
    /\ steps = <<>>
    /\ call = NoCall
    /\ out = NoCall

\* parseCMap(cmapData, font) on the decoded ToUnicode stream
ParseCMap ==
    /\ pc = "parseCMap"
    /\ doc' = [doc EXCEPT !.CodeToUnicode = parseCMap(file, doc.CodeToUnicode)]
    /\ pc' = "done"
    /\ UNCHANGED <<input, file, ret, steps, call, out>>

CMapNext == ParseCMap

CMapSpec == CMapInit /\ [][CMapNext]_vars

-----------------------------------------------------------------------------
(* SortTextPositions and ExtractOrderedText on the runs of a page *)

MaxRuns == 3           \* text runs of a page

\* the runs of the pages, in tenths of a point: two columns, baselines below
\* and above the origin and on both sides of a row boundary, two font sizes
RunPositions ==
    [X : {0, 720}, Y : {0 - 100, 100, 890, 910, 990}, FontSize : {12, 24},
     Text : {"a"}, FontName : {"/F1"}]

SortInputs == UNION {[1..n -> RunPositions] : n \in 0..MaxRuns}

SortInit ==
    /\ input \in SortInputs
    /\ file = ""
    /\ pc = "SortTextPositions"
    /\ doc = [TextPositions |-> input]
    /\ ret = "none"
    /\ steps = <<>>
    /\ call = NoCall
    /\ out = NoCall

\* SortTextPositions(textPositions, page.Width, page.Height)
SortTextPositionsCall ==
    /\ pc = "SortTextPositions"
    /\ doc' = [doc EXCEPT !.TextPositions = SortTextPositions(doc.TextPositions)]
    /\ pc' = "ExtractOrderedText"
    /\ UNCHANGED <<input, file, ret, steps, call, out>>

\* page.ExtractOrderedText()
ExtractOrderedTextCall ==
    /\ pc = "ExtractOrderedText"
    /\ out' = [fn |-> "ExtractOrderedText", r |-> ExtractOrderedText(doc.TextPositions)]
    /\ pc' = "done"
    /\ UNCHANGED <<input, file, doc, ret, steps, call>>

SortNext == SortTextPositionsCall \/ ExtractOrderedTextCall

SortSpec == SortInit /\ [][SortNext]_vars

-----------------------------------------------------------------------------
(* decodeText on string operands with escapes *)

MaxPieces == 3         \* pieces of a string operand

\* the pieces of the operands: letters, a digit, octal escapes of three, one
\* and two digits, and the escape \n
OperandPieces == {"A", "7", "\\101", "\\7", "\\12", "\\n"}

\* CodeToUnicode of the current font: no entry, or entries for the codes of
\* A and of the one-digit escape
FontMaps == {<<>>, (7 :> 66) @@ (65 :> 90)}

RECURSIVE JoinPieces(_, _)
JoinPieces(pieces, k) ==
    IF k > Len(pieces) THEN "" ELSE pieces[k] \o JoinPieces(pieces, k + 1)

DecodeInputs ==
    [pieces : UNION {[1..n -> OperandPieces] : n \in 0..MaxPieces}, font : FontMaps]

DecodeInit ==
    /\ input \in DecodeInputs
    /\ file = JoinPieces(input.pieces, 1)
    /\ pc = "decodeText"
    /\ doc = [CodeToUnicode |-> input.font]
    /\ ret = "none"
    /\ steps = <<>>
    /\ call = NoCall
    /\ out = NoCall

\* text := decodeText(textBytes, currentFont)
DecodeText ==
    /\ pc = "decodeText"
    /\ out' = [fn |-> "decodeText", r |-> decodeText(file, doc.CodeToUnicode)]
    /\ pc' = "done"
    /\ UNCHANGED <<input, file, doc, ret, steps, call>>

DecodeNext == DecodeText

DecodeSpec == DecodeInit /\ [][DecodeNext]_vars

-----------------------------------------------------------------------------
(* concurrent parses and the global log level *)

\* ParseOptions.LogLevel of the parses
OptionLevels == {LogError, LogWarning, LogInfo, LogDebug}

\* a parse that has not saved a level yet
NoLevel == 0 - 1

\* two goroutines, each about to call ParsePDFWithOptions with the same
\* options; SetLogLevel and GetLogLevel each run under loggerMutex, so each
\* call is one step
LevelInit ==
    /\ input \in [level : OptionLevels]
    /\ file = ""
    /\ pc = [g \in Goroutines |-> "ParsePDFWithOptions"]
    /\ doc = [logLevel |-> LogWarning]
    /\ ret = [g \in Goroutines |-> "none"]
    /\ steps = <<>>
    /\ call = [g \in Goroutines |-> [origLogLevel |-> NoLevel]]
    /\ out = NoCall

\* utils.SetLogLevel(options.LogLevel), then document.ParsePDF up to the call
\* of parseXRefAndTrailer
SetOptionsLevel(g) ==
    /\ pc[g] = "ParsePDFWithOptions"
    /\ doc' = [doc EXCEPT !.logLevel = input.level]
    /\ pc' = [pc EXCEPT ![g] = "GetLogLevel"]
    /\ UNCHANGED <<input, file, ret, steps, call, out>>

\* origLogLevel := utils.GetLogLevel()
SaveLogLevel(g) ==
    /\ pc[g] = "GetLogLevel"
    /\ call' = [call EXCEPT ![g] = [origLogLevel |-> doc.logLevel]]
    /\ pc' = [pc EXCEPT ![g] = "SetLogLevel"]
    /\ UNCHANGED <<input, file, doc, ret, steps, out>>

\* utils.SetLogLevel(utils.LogDebug)
RaiseLogLevel(g) ==
    /\ pc[g] = "SetLogLevel"
    /\ doc' = [doc EXCEPT !.logLevel = LogDebug]
    /\ pc' = [pc EXCEPT ![g] = "parseXRef"]
    /\ UNCHANGED <<input, file, ret, steps, call, out>>

\* the body of parseXRefAndTrailer, which leaves the log level alone
ParseBody(g) ==
    /\ pc[g] = "parseXRef"
    /\ pc' = [pc EXCEPT ![g] = "defer"]
    /\ UNCHANGED <<input, file, doc, ret, steps, call, out>>

\* defer utils.SetLogLevel(origLogLevel), and the rest of the parse, which
\* returns the document
RestoreLogLevel(g) ==
    /\ pc[g] = "defer"
    /\ doc' = [doc EXCEPT !.logLevel = call[g].origLogLevel]
    /\ pc' = [pc EXCEPT ![g] = "returned"]
    /\ ret' = [ret EXCEPT ![g] = "doc"]
    /\ UNCHANGED <<input, file, steps, call, out>>

LevelNext ==
    \E g \in Goroutines :
        \/ SetOptionsLevel(g)
        \/ SaveLogLevel(g)
        \/ RaiseLogLevel(g)
        \/ ParseBody(g)
        \/ RestoreLogLevel(g)

LevelSpec == LevelInit /\ [][LevelNext]_vars

-----------------------------------------------------------------------------
(* processPageTree call by call, on page trees with and without cycles *)

MaxStack == 6          \* frames of processPageTree that the goroutine stack holds

\* /Kids of the root node 2 and of the inner node 4: the page 3, the node
\* itself, the inner node, the root, the catalog 1 and the missing object 5.
\* Each reference is written as an array
\* of its own, the form of which ParseArray yields whole references; the last
\* value of RootKids has the reference written plainly
RootKids ==
    {"[[3 0 R]]", "[[2 0 R]]", "[[3 0 R] [2 0 R]]", "[[4 0 R]]",
     "[[3 0 R] [4 0 R] [3 0 R]]", "[2 0 R]"}
InnerKids == {"[[3 0 R]]", "[[2 0 R]]", "[[4 0 R] [3 0 R]]", "[[1 0 R] [5 0 R]]"}

WalkInputs == [root : RootKids, inner : InnerKids]

PagesNode(kids) ==
    Put(Put(NoDict, "Type", StrVal("/Pages")), "Kids", StrVal(kids))

\* the object table: the catalog 1, the /Pages nodes 2 and 4, the page 3
WalkTable(in) ==
    [num \in 1..4 |->
        [ObjectNumber |-> num, Generation |-> 0, Content |-> "",
         Dictionary |->
             CASE num = 1 -> Put(Put(NoDict, "Type", StrVal("/Catalog")),
                                 "Pages", StrVal("2 0 R"))
               [] num = 2 -> PagesNode(in.root)
               [] num = 3 -> Put(NoDict, "Type", StrVal("/Page"))
               [] num = 4 -> PagesNode(in.inner),
         Stream |-> "", IsStream |-> FALSE]]

\* processPages has found the catalog and calls processPageTree(doc, 2, 1);
\* call holds the frames whose loop over kidRefs is running, out the argument
\* of the call that is being entered and the page counter
WalkInit ==
    /\ input \in WalkInputs
    /\ file = ""
    /\ pc = "processPageTree"
    /\ doc = [NewDocument EXCEPT !.Objects = WalkTable(input), !.RootCatalog = 1]
    /\ ret = "none"
    /\ steps = <<>>
    /\ call = <<>>
    /\ out = [objNum |-> 2, pageCounter |-> 1]

\* the dictionary of the node is a /Pages node with /Kids
IsPagesNode(dict) ==
    /\ Has(dict, "Type") /\ dict["Type"].t = "s" /\ dict["Type"].v = "/Pages"
    /\ Has(dict, "Kids")

IsPageNode(dict) ==
    Has(dict, "Type") /\ dict["Type"].t = "s" /\ dict["Type"].v = "/Page"

\* a call of processPageTree that needs a frame the stack has no room for:
\* the runtime ends the program with a fatal stack overflow
StackOverflow ==
    /\ pc = "processPageTree"
    /\ Len(call) >= MaxStack
    /\ pc' = "stack overflow"
    /\ UNCHANGED <<input, file, doc, ret, steps, call, out>>

\* processPageTree entered for a /Pages node with /Kids: kidRefs is parsed
\* and the loop starts
EnterPagesNode ==
    /\ pc = "processPageTree"
    /\ Len(call) < MaxStack
    /\ out.objNum \in DOMAIN doc.Objects
    /\ IsPagesNode(doc.Objects[out.objNum].Dictionary)
    /\ call' = Append(call, [objNum |-> out.objNum, k |-> 1,
                             kidRefs |-> ParseArray(doc.Objects[out.objNum]
                                                       .Dictionary["Kids"].v)])
    /\ pc' = "kidRefs"
    /\ UNCHANGED <<input, file, doc, ret, steps, out>>

\* processPageTree entered for a /Page: the page is appended and the counter
\* is raised
EnterPage ==
    /\ pc = "processPageTree"
    /\ Len(call) < MaxStack
    /\ out.objNum \in DOMAIN doc.Objects
    /\ IsPageNode(doc.Objects[out.objNum].Dictionary)
    /\ \E r \in {AppendPage(doc.Pages, out.pageCounter,
                            PageMediaBox(doc.Objects[out.objNum].Dictionary),
                            PageResources(doc.Objects, doc.Objects[out.objNum].Dictionary),
                            PageContents(doc.Objects, doc.Objects[out.objNum].Dictionary))} :
          /\ doc' = [doc EXCEPT !.Pages = r.pages]
          /\ out' = [out EXCEPT !.pageCounter = r.counter]
    /\ pc' = "return"
    /\ UNCHANGED <<input, file, ret, steps, call>>

\* processPageTree entered for a missing object or for another kind of node
EnterOther ==
    /\ pc = "processPageTree"
    /\ Len(call) < MaxStack
    /\ \/ out.objNum \notin DOMAIN doc.Objects
       \/ /\ out.objNum \in DOMAIN doc.Objects
          /\ ~IsPagesNode(doc.Objects[out.objNum].Dictionary)
          /\ ~IsPageNode(doc.Objects[out.objNum].Dictionary)
    /\ pc' = "return"
    /\ UNCHANGED <<input, file, doc, ret, steps, call, out>>

\* one pass of the loop over kidRefs in the newest frame: the recursive call
\* for the kid, or the next kid when the reference is invalid
NextKid ==
    /\ pc = "kidRefs"
    /\ call[Len(call)].k <= Len(call[Len(call)].kidRefs)
    /\ call' = [call EXCEPT ![Len(call)].k = @ + 1]
    /\ \E kidRef \in {call[Len(call)].kidRefs[call[Len(call)].k]} :
       \E kidObjNum \in {ExtractReference(kidRef)} :
          IF kidObjNum = -1
          THEN pc' = "kidRefs" /\ out' = out
          ELSE pc' = "processPageTree" /\ out' = [out EXCEPT !.objNum = kidObjNum]
    /\ UNCHANGED <<input, file, doc, ret, steps>>

\* the loop over kidRefs is over: the frame returns pageCounter
EndKids ==
    /\ pc = "kidRefs"
    /\ call[Len(call)].k > Len(call[Len(call)].kidRefs)
    /\ call' = SubSeq(call, 1, Len(call) - 1)
    /\ pc' = "return"
    /\ UNCHANGED <<input, file, doc, ret, steps, out>>

\* a call returns to the loop of its caller, the first call to processPages
ReturnToCaller ==
    /\ pc = "return"
    /\ pc' = IF call = <<>> THEN "done" ELSE "kidRefs"
    /\ UNCHANGED <<input, file, doc, ret, steps, call, out>>

WalkNext ==
    \/ StackOverflow
    \/ EnterPagesNode
    \/ EnterPage
    \/ EnterOther
    \/ NextKid
    \/ EndKids
    \/ ReturnToCaller

WalkSpec == WalkInit /\ [][WalkNext]_vars

\* the goroutine that runs processPages is scheduled as long as it can step
WalkFairSpec == WalkSpec /\ WF_vars(WalkNext)

-----------------------------------------------------------------------------
(* processText and processTextChunks on the pages of a document whose text
   has empty lines, short lines and lines around the size of a chunk *)

MaxTextLines == 3      \* lines of text in the pages of a document

\* the lines of a page: empty, one byte, two that fill a chunk exactly with
\* their newline (499 + 1 + 500), and one that is longer than a chunk
TextLines ==
    {"", "a", Rep("b", 499), Rep("c", maxChunkSize \div 2), Rep("d", maxChunkSize + 1)}

\* the lines of the first and of the second page
ChunkInputs ==
    UNION {[first : [1..n -> TextLines], second : [1..m -> TextLines]] :
              <<n, m>> \in {nm \in (0..MaxTextLines) \X (0..MaxTextLines) :
                                nm[1] + nm[2] <= MaxTextLines}}

RECURSIVE JoinLines(_, _)
\* the lines from k on, with a newline between two lines
JoinLines(lines, k) ==
    IF k > Len(lines) THEN ""
    ELSE IF k = Len(lines) THEN lines[k]
    ELSE lines[k] \o "\n" \o JoinLines(lines, k + 1)

\* processPages has left two pages, whose content is the joined lines
ChunkInit ==
    /\ input \in ChunkInputs
    /\ file = ""
    /\ pc = "processText"
    /\ doc = [NewDocument EXCEPT
                 !.Pages = <<[NewPage(1) EXCEPT !.Contents = JoinLines(input.first, 1)],
                             [NewPage(2) EXCEPT !.Contents = JoinLines(input.second, 1)]>>]
    /\ ret = "none"
    /\ steps = <<>>
    /\ call = NoCall
    /\ out = NoCall

ChunkNext ==
    \/ ProcessText
    \/ ProcessTextChunks
    \/ UpdateMetrics

ChunkSpec == ChunkInit /\ [][ChunkNext]_vars

-----------------------------------------------------------------------------
(* The filter chain on encoded streams: loadObjects hands the stream of an
   object that has /Filter to DecompressStream, with its /DecodeParms, and
   stores the decoded bytes in place of the stream. *)

\* the byte values that the payloads are made of
SampleBytes == {0, 100, 200}

\* PNG filtering as the PNG specification defines it, on integers: the
\* predictor of a byte from the bytes to its left (a), above it (b) and
\* above its left (c)
PaethReference(a, b, c) ==
    IF abs(a + b - c - a) <= abs(a + b - c - b) /\ abs(a + b - c - a) <= abs(a + b - c - c)
    THEN a
    ELSE IF abs(a + b - c - b) <= abs(a + b - c - c) THEN b
    ELSE c

PNGPredict(type, a, b, c) ==
    CASE type = 1 -> a
      [] type = 2 -> b
      [] type = 3 -> (a + b) \div 2
      [] type = 4 -> PaethReference(a, b, c)
      [] OTHER -> 0

\* byte i (from 0) of row number row (from 0) of the buffer B, 0 outside of it
RawAt(B, rowLength, row, i) ==
    IF row < 0 \/ i < 0 THEN 0 ELSE B[row * rowLength + i + 1]

\* the filtered row: the filter type followed by each byte minus its predictor
PNGEncodeRow(B, rowLength, bytesPerPixel, row, type) ==
    <<type>> \o
    [k \in 1..rowLength |->
        (256 + RawAt(B, rowLength, row, k - 1)
             - PNGPredict(type,
                          RawAt(B, rowLength, row, k - 1 - bytesPerPixel),
                          RawAt(B, rowLength, row - 1, k - 1),
                          IF k - 1 - bytesPerPixel < 0 THEN 0
                          ELSE RawAt(B, rowLength, row - 1, k - 1 - bytesPerPixel))) % 256]

RECURSIVE PNGEncodeFrom(_, _, _, _, _)
PNGEncodeFrom(B, rowLength, bytesPerPixel, types, row) ==
    IF row >= Len(types) THEN <<>>
    ELSE PNGEncodeRow(B, rowLength, bytesPerPixel, row, types[row + 1])
         \o PNGEncodeFrom(B, rowLength, bytesPerPixel, types, row + 1)

\* the buffer B of Len(types) rows, row r filtered with types[r]
PNGEncode(B, rowLength, bytesPerPixel, types) ==
    PNGEncodeFrom(B, rowLength, bytesPerPixel, types, 0)

\* a literal run of the bytes x and the end-of-data byte, as RunLengthDecode reads them
RunLengthEncode(x) == <<Len(x) - 1>> \o x \o <<128>>

FlateNames == {"/FlatDecode", "/FlateDecode"}
FilterNames == FlateNames \cup {"/ASCII85Decode", "/RunLengthDecode"}

EncodeWith(name, x) ==
    CASE name \in FlateNames -> Deflate(x)
      [] name = "/ASCII85Decode" -> Ascii85Encode(x)
      [] name = "/RunLengthDecode" -> RunLengthEncode(x)

RECURSIVE EncodeChain(_, _)
\* the stream that the filters of chain decode to x when they are applied in
\* the order of the chain: the first filter is the outermost layer
EncodeChain(chain, x) ==
    IF Len(chain) = 0 THEN x
    ELSE EncodeWith(chain[1], EncodeChain(Tail(chain), x))

FilterChains ==
    {<<a>> : a \in FilterNames}
        \cup {<<a, b>> : a \in FilterNames \ {"/FlateDecode"}, b \in FilterNames}

\* a stream object: its decoded bytes, its filters, /Filter written as a name
\* or as an array, and the /Predictor of the last filter (0: no /DecodeParms)
FilterInputs ==
    {in \in [payload : [1..(MaxRows * MaxCols) -> SampleBytes], chain : FilterChains,
             form : {"name", "array"}, predictor : {0, 12}] :
        /\ in.form = "name" => Len(in.chain) = 1
        /\ in.predictor # 0 => in.chain[Len(in.chain)] \in FlateNames}

\* the bytes before the filters are applied: PNG rows filtered with Up
Predicted(in) ==
    IF in.predictor = 0 THEN in.payload
    ELSE PNGEncode(in.payload, MaxCols, 1, [r \in 1..MaxRows |-> 2])

PredictorParms == "<< /Predictor 12 /Columns " \o Itoa(MaxCols) \o " >>"

RECURSIVE JoinItems(_)
JoinItems(items) ==
    IF Len(items) = 0 THEN ""
    ELSE IF Len(items) = 1 THEN items[1]
    ELSE items[1] \o " " \o JoinItems(Tail(items))

FilterText(in) ==
    IF in.form = "name" THEN in.chain[1] ELSE "[" \o JoinItems(in.chain) \o "]"

\* /DecodeParms as DecompressStream takes it: the dictionary of the filter, or
\* for a filter array the array of the dictionaries under the key Array
ParmsOf(in) ==
    IF in.predictor = 0 THEN NoDict
    ELSE IF in.form = "name"
         THEN ParseDictionary(Slice(PredictorParms, 2, Len(PredictorParms) - 2), NoDict)
    ELSE Put(NoDict, "Array",
             StrVal("[" \o JoinItems([k \in 1..Len(in.chain) |->
                                         IF k = Len(in.chain) THEN PredictorParms
                                         ELSE "null"]) \o "]"))

FilterInit ==
    /\ input \in FilterInputs
    /\ file = ""
    /\ pc = "decompressStream"
    /\ doc = NewDocument
    /\ ret = "none"
    /\ steps = <<>>
    /\ call = [fn |-> "DecompressStream", stream |-> EncodeChain(input.chain, Predicted(input)),
               filterSpec |-> FilterText(input), decodeParms |-> ParmsOf(input)]
    /\ out = NoCall

\* content.DecompressStream(obj.Stream, filter.(string), decodeParms)
DecompressStreamCall ==
    /\ pc = "decompressStream"
    /\ out' = [fn |-> "DecompressStream",
               r |-> DecompressStream(call.stream, call.filterSpec, call.decodeParms)]
    /\ pc' = "storeStream"
    /\ UNCHANGED <<input, file, doc, ret, steps, call>>

\* loadObjects: obj.Stream = decompressed when err == nil, a warning otherwise
StoreStream ==
    /\ pc = "storeStream"
    /\ out' = [fn |-> "loadObjects",
               Stream |-> IF out.r.st = "ok" THEN out.r.data ELSE call.stream,
               warned |-> out.r.st # "ok"]
    /\ ret' = IF out.r.st = "panic" THEN "panic" ELSE "doc"
    /\ pc' = "done"
    /\ UNCHANGED <<input, file, doc, steps, call>>

FilterNext ==
    \/ DecompressStreamCall
    \/ StoreStream

FilterSpec == FilterInit /\ [][FilterNext]_vars

-----------------------------------------------------------------------------
(* The PNG predictor on filtered buffers: applyPredictor with /Predictor 12
   on the rows that PNGEncode makes of a buffer. *)

\* buffers of whole rows of MaxCols bytes, one or two bytes to the pixel
\* (/Colors 1 or 2 at 8 bits), and a PNG filter type for each row
PredictorInputs ==
    UNION {[rows : {n}, colors : {c \in {1, 2} : MaxCols % c = 0},
            B : [1..(n * MaxCols) -> SampleBytes], types : [1..n -> 1..4]] :
           n \in 1..MaxRows}

PredictorInit ==
    /\ input \in PredictorInputs
    /\ file = ""
    /\ pc = "applyPredictor"
    /\ doc = NewDocument
    /\ ret = "none"
    /\ steps = <<>>
    /\ call = [fn |-> "applyPredictor",
               data |-> PNGEncode(input.B, MaxCols, input.colors, input.types),
               predictor |-> 12,
               decodeParms |->
                   Put(Put(Put(NoDict, "Columns", StrVal(Itoa(MaxCols \div input.colors))),
                           "Colors", StrVal(Itoa(input.colors))),
                       "BitsPerComponent", StrVal("8"))]
    /\ out = NoCall

ApplyPredictor ==
    /\ pc = "applyPredictor"
    /\ out' = [fn |-> "applyPredictor",
               r |-> applyPredictor(call.data, call.predictor, call.decodeParms)]
    /\ pc' = "done"
    /\ UNCHANGED <<input, file, doc, ret, steps, call>>

PredictorNext == ApplyPredictor

PredictorSpec == PredictorInit /\ [][PredictorNext]_vars

-----------------------------------------------------------------------------
(* Properties of ParsePDF on the rendered files *)

Done == pc = "done"

\* C1: a file whose xref section is followed by the keyword trailer, a << >>
\* dictionary and startxref (here with the right offset after startxref) is
\* parsed without a structural error: ParsePDF returns a document and the
\* trailer dictionary holds /Root.
C1_TrailerParsed ==
    (Done /\ input.startxref = "good") => (ret = "doc" /\ Has(doc.Trailer, "Root"))

\* the trailer keyword on a line of its own, the dictionary on the next line:
\* parseXRef has read the table and ParsePDF has ended
C1_StandardTrailerReached ==
    /\ Done
    /\ input.startxref = "good"
    /\ input.trailer = "newline"
    /\ input.eol = "lf"
    /\ Len(steps) >= 2
    /\ steps[1] = "parseXRef"
    /\ steps[2] = "parseTrailer"

\* the numbers after startxref that are not the offset of the xref section
WrongOffsets == {"early", "zero", "tail", "beyond"}

\* C4: for a well-formed file that ParsePDF parses into a document, the same
\* file with a wrong number after startxref is parsed, through the recovery
\* path, into a document with the same set of object numbers.
C4_RecoveryKeepsObjects ==
    (/\ Done
     /\ input.startxref \in WrongOffsets
     /\ ParsedObjects(Render(Uncorrupted(input))).st = "doc")
        => /\ ret = "doc"
           /\ DOMAIN doc.Objects = DOMAIN ParsedObjects(Render(Uncorrupted(input))).Objects

\* a file with a wrong offset, whose uncorrupted form parses into a document
\* with objects, has gone through the recovery of parseXRefAndTrailer
C4_RecoveryTaken ==
    /\ Done
    /\ input.startxref \in WrongOffsets
    /\ ParsedObjects(Render(Uncorrupted(input))).st = "doc"
    /\ DOMAIN ParsedObjects(Render(Uncorrupted(input))).Objects # {}
    /\ Len(steps) >= 2
    /\ steps[2] = "findNearbyXref"

\* C5: a file without startxref in its last 1024 bytes is parsed by the
\* fallback into a document, not an error, whose object table holds every
\* object that an  N G obj  header of the file introduces.
C5_FallbackFindsObjects ==
    (Done /\ input.startxref = "none")
        => /\ ret = "doc"
           /\ \A n \in 1..ObjectCount(input) : n \in DOMAIN doc.Objects

\* the fallback has run on a file without startxref and ParsePDF has returned
C5_FallbackTaken ==
    /\ Done
    /\ input.startxref = "none"
    /\ steps = <<"fallbackLinearParse">>

\* C9: every in-use entry (n, g) of the final xref table, read from the
\* classic table or made by the rebuild, has as its offset the position of
\* the file where the text  n g obj  begins.
C9_OffsetsOnHeaders ==
    (pc \in {"rootCatalog", "loadObjects", "processPages"} /\ Len(steps) > 1)
        => \A n \in DOMAIN doc.XRefTable :
              doc.XRefTable[n].InUse
                  => HasAt(file,
                           Itoa(n) \o " " \o Itoa(doc.XRefTable[n].Generation) \o " obj",
                           doc.XRefTable[n].Offset)

\* parseXRefAndTrailer has succeeded with a table made by rebuildXRefTable
C9_TableRebuilt ==
    /\ pc = "rootCatalog"
    /\ Len(steps) >= 3
    /\ steps[3] = "rebuildXRefTable"
    /\ \E n \in DOMAIN doc.XRefTable : doc.XRefTable[n].InUse

-----------------------------------------------------------------------------
(* Properties of the document stage on loaded object tables *)

C3_PageCount ==
    (pc # "processPages" /\ ret # "panic") => GetPageCount(doc) = input.pages

\* processPages has run on a table with pages whose /Kids separates the parts of
\* a reference by spaces
C3_SpacedKidsProcessed ==
    /\ pc = "processFonts"
    /\ input.pages >= 1
    /\ input.kids = "space"

\* C10: every element of the text chunks made by processTextChunks is at most
\* 1000 bytes long, whatever the lengths of the lines of the text.
C10_ChunkLength ==
    \A i \in 1..Len(doc.TextChunks) : Len(doc.TextChunks[i]) <= maxChunkSize

\* processTextChunks has run on text with a line of more than 1000 bytes
C10_LongLineChunked ==
    /\ pc = "updateMetrics"
    /\ input.contents = "long"
    /\ GetPageCount(doc) >= 1
    /\ Len(doc.Pages[1].Text) > maxChunkSize

-----------------------------------------------------------------------------
(* Properties of the filter chain and of the predictors *)

\* /Filter of the input with every /FlateDecode spelled /FlatDecode
FlatSpelling(in) == IF in.form = "name" THEN "/FlatDecode" ELSE "[/FlatDecode]"

\* C6: a stream whose /Filter is /FlateDecode is inflated like one whose
\* filter is spelled /FlatDecode, a /Predictor of 2 or more is then applied,
\* and the stream is replaced by the decoded bytes.
C6_FlateDecodeInflates ==
    (pc = "done" /\ input.chain = <<"/FlateDecode">>)
        => /\ out.Stream = input.payload
           /\ ~out.warned
           /\ DecompressStream(call.stream, FlatSpelling(input), call.decodeParms)
                  = Ok(out.Stream)

\* a deflated stream with /Filter /FlateDecode and /Predictor 12 has been
\* through DecompressStream and the result is stored
C6_FlateDecodeStored ==
    /\ pc = "done"
    /\ input.chain = <<"/FlateDecode">>
    /\ input.predictor = 12
    /\ call.stream = Deflate(Predicted(input))

\* C7: for a /Filter array the decoders are applied in the order given, the
\* first to the raw stream, each with the /DecodeParms entry of its index, so
\* that a stream encoded with the first filter outermost decodes to its bytes.
C7_FiltersInOrder ==
    (/\ pc = "done"
     /\ input.form = "array"
     /\ \A k \in 1..Len(input.chain) : input.chain[k] # "/FlateDecode")
        => /\ out.Stream = input.payload
           /\ ~out.warned

\* a stream under two different filters, given as an array, has been through
\* DecompressStream
C7_TwoFiltersApplied ==
    /\ pc = "done"
    /\ input.form = "array"
    /\ input.chain = <<"/ASCII85Decode", "/FlatDecode">>
    /\ call.filterSpec = "[/ASCII85Decode /FlatDecode]"

\* C8: PNG predictor decoding inverts PNG encoding: for every buffer B of
\* whole rows, every bytes per pixel and every row filter type 1 to 4,
\* applyPNGPredictor on the encoded rows returns B.
C8_PNGRoundTrip ==
    pc = "done" => out.r = Ok(input.B)

\* a buffer of two rows whose second row is filtered with Average has been
\* decoded
C8_AverageRowDecoded ==
    /\ pc = "done"
    /\ input.rows = 2
    /\ input.types[2] = 3
    /\ call.data[MaxCols + 2] = 3

-----------------------------------------------------------------------------
(* Properties of the document stage on tables with two catalogs *)

\* the catalogs processPages may take when the trailer gave no /Root
CatalogChoices == IF doc.RootCatalog # 0 THEN {doc.RootCatalog} ELSE CatalogCandidates(doc)

-----------------------------------------------------------------------------
(* Properties of the logger *)

\* C12: every read and every write of the logger's shared state (the level,
\* the writer, the timestamp flag) is made by a goroutine that holds
\* loggerMutex.
C12_AccessUnderMutex ==
    out.fn = "access" => out.locked

\* a goroutine has read the level in NewLogger while the other was inside a
\* function that holds the mutex
C12_NewLoggerDuringLockedCall ==
    /\ out.fn = "access"
    /\ ~out.locked
    /\ doc.loggerMutex \in Goroutines \ {out.by}

-----------------------------------------------------------------------------
(* Properties of ParsePDF on files with varied streams and xref entries *)

\* parseXRefAndTrailer has returned without error
PassedXRefAndTrailer ==
    /\ Len(steps) > 0
    /\ steps[Len(steps)] = "parseTrailer"
    /\ ret # "error"

\* C13: once the header check and the xref/trailer parsing have passed, no
\* later stage panics, and ParsePDF ends by returning a document.
C13_NoPanicAfterXRef ==
    PassedXRefAndTrailer => (ret # "panic" /\ (Done => ret = "doc"))

\* the objects of a file whose content stream has a /Filter and an inline
\* /DecodeParms dictionary have been read
C13_DecodeParmsObjectRead ==
    /\ PassedXRefAndTrailer
    /\ input.stream = "parms"
    /\ pc \notin {"rootCatalog", "loadObjects"}

-----------------------------------------------------------------------------
(* Properties of the recovery of the xref table *)

\* parseXRefAndTrailer has failed before it came to the trailer
XRefStageFailed ==
    /\ ret = "error"
    /\ \A k \in 1..Len(steps) : steps[k] \notin {"parseTrailer", "findTrailerFromEnd"}

\* the retry at the xref keyword found nearby has left the table without entries
RetryGaveNoTable ==
    /\ Len(steps) >= 3
    /\ SubSeq(steps, 1, 3) = <<"parseXRef", "findNearbyXref", "parseXRef">>
    /\ doc.XRefTable = NoXRef

\* C14: when reading the xref table at the declared offset fails, the retry
\* at a nearby xref keyword comes first and the rebuild of the table from the
\* whole file follows a retry that gave no table: rebuildXRefTable has run
\* whenever the retry left no table and whenever the parse fails at this stage.
C14_RebuildAfterRetry ==
    (XRefStageFailed \/ RetryGaveNoTable) =>
        \E k \in 1..Len(steps) : steps[k] = "rebuildXRefTable"

\* the retry has been made at the xref inside the startxref keyword
C14_RetryAtStartxref ==
    /\ RetryGaveNoTable
    /\ input.startxref = "past"

\* the xref section at the declared offset has been read and one of its
\* entries is malformed
MalformedEntryRead ==
    /\ EntryKind(input) = "malformed"
    /\ input.startxref = "good"
    /\ Len(steps) > 0

\* C15: an xref section at the declared offset with a malformed entry makes
\* the reading of the table fail, so that the recovery is applied: the nearby
\* search follows the first parseXRef.
C15_MalformedEntriesRecover ==
    MalformedEntryRead => (Len(steps) >= 2 /\ steps[2] = "findNearbyXref")

\* the table has been read from a section with a malformed entry and the
\* trailer after it
C15_MalformedSectionParsed ==
    /\ MalformedEntryRead
    /\ pc = "rootCatalog"

-----------------------------------------------------------------------------
(* Properties of the recovery of the trailer *)

\* findTrailerFromEnd has run, as step k, on a file that holds a trailer token
ScannedFromEnd(k) ==
    /\ k \in 1..Len(steps)
    /\ steps[k] = "findTrailerFromEnd"
    /\ Contains(file, "trailer")

\* C16: in a file of any size that holds a trailer token the scan from the
\* end of the file finds it, and the dictionary after it is parsed next: a
\* second parseTrailer follows findTrailerFromEnd.
C16_TrailerFoundFromEnd ==
    \A k \in 1..Len(steps) :
        ScannedFromEnd(k) => (Len(steps) > k /\ steps[k + 1] = "parseTrailer")

\* the scan has run on a file that is shorter than one buffer of the scan
C16_ShortFileScanned ==
    /\ \E k \in 1..Len(steps) : ScannedFromEnd(k)
    /\ Len(file) < trailerBufSize

-----------------------------------------------------------------------------
(* Properties of the objects read from the file *)

\* loadObjects has returned
ObjectsLoaded ==
    /\ PassedXRefAndTrailer
    /\ ret # "panic"
    /\ pc \notin {"rootCatalog", "loadObjects"}

\* the bytes of the file from the start of the stream data of the object at
\* offset (after the keyword stream and its line end) to the keyword endstream
FileStreamBytes(f, offset) ==
    Slice(f, StreamStart(f, IndexFrom(f, "stream", offset) + 6),
          IndexFrom(f, "endstream", offset))

\* C17: the stream that the object reader records for an unfiltered stream
\* object is, byte for byte, the part of the file between the start of the
\* stream data and the keyword endstream, also when CR, LF or CR LF occur
\* inside the data.
C17_StreamBytesAsInFile ==
    (ObjectsLoaded /\ StreamKind(input) # "parms"
        /\ ContentNum(input) \in DOMAIN doc.Objects) =>
        doc.Objects[ContentNum(input)].Stream
            = FileStreamBytes(file, ObjectOffset(input, ContentNum(input)))

\* a stream with CR LF inside its data has been recorded
C17_StreamWithCRLFRead ==
    /\ ObjectsLoaded
    /\ StreamKind(input) = "crlf"
    /\ ContentNum(input) \in DOMAIN doc.Objects
    /\ doc.Objects[ContentNum(input)].IsStream

-----------------------------------------------------------------------------
(* Properties of the dictionaries read from the file *)

\* C18: ParseDictionary keeps an indirect reference whole. The trailer's
\* /Root 1 0 R gives RootCatalog = 1, the catalog's /Pages 2 0 R is stored so
\* that ExtractReference recovers 2, and the /Kids array of the page tree
\* root is stored with all its references.
C18_ReferencesKeptWhole ==
    /\ (PassedXRefAndTrailer /\ pc # "rootCatalog" /\ Has(doc.Trailer, "Root"))
           => doc.RootCatalog = 1
    /\ (ObjectsLoaded /\ 1 \in DOMAIN doc.Objects
            /\ Has(doc.Objects[1].Dictionary, "Pages"))
           => ExtractReference(doc.Objects[1].Dictionary["Pages"].v) = 2
    /\ (ObjectsLoaded /\ 2 \in DOMAIN doc.Objects
            /\ Has(doc.Objects[2].Dictionary, "Kids"))
           => doc.Objects[2].Dictionary["Kids"].v = "[" \o KidsList(3, input.pages) \o "]"

\* the trailer with its /Root and the page tree root with its /Kids have been read
C18_RootAndKidsRead ==
    /\ ObjectsLoaded
    /\ Has(doc.Trailer, "Root")
    /\ 2 \in DOMAIN doc.Objects
    /\ Has(doc.Objects[2].Dictionary, "Kids")

-----------------------------------------------------------------------------
(* Properties of the text extractor *)

RECURSIVE InStreamOrder(_, _, _)
\* the operators of a text object taken one after the other as they stand in
\* the stream, each with the effect that extractTextWithPositioning gives it
InStreamOrder(st, toks, j) ==
    IF j > Len(toks) THEN st
    ELSE Only({InStreamOrder(next, toks, j + 1) :
                  next \in {TextOperator(toks[j], st, toks, j)}})

\* C19: inside BT ... ET the operators take effect in stream order: every Tj
\* run is emitted at the position made by the Tm, Td, TD and T* operators
\* before it and with the font of the last Tf before it, so that
\* BT /F1 12 Tf 0 100 Td (a) Tj 0 -20 Td (b) Tj ET gives a at y = 100 and b
\* at y = 80.
C19_OperatorsInStreamOrder ==
    Done =>
        doc.TextPositions
            = SortTextPositions(
                  InStreamOrder(InitialTextState, Fields(doc.Contents), 1).textPositions)

\* the text object of the example has been extracted
C19_ExampleExtracted ==
    /\ Done
    /\ input = <<"0 100 Td", "(a) Tj", "0 -20 Td", "(b) Tj">>

-----------------------------------------------------------------------------
(* Properties of the object table *)

\* the first object header in the 50 bytes of the file at the offset of the
\* xref entry of n names the number n and the generation of the entry
HeaderAtEntry(n) ==
    /\ doc.XRefTable[n].Offset > 0
    /\ doc.XRefTable[n].Offset < Len(file)
    /\ \E h \in {objHeaderPattern(Slice(file, doc.XRefTable[n].Offset,
                                        Min({doc.XRefTable[n].Offset + 50, Len(file)})))} :
          h.ok /\ h.num = n /\ h.gen = doc.XRefTable[n].Generation

\* C20: after loadObjects every key n of the object table has an in-use xref
\* entry, and the object stored under n has the number n and the generation
\* of that entry; free entries and entries at whose offset the header names
\* another number or generation give no object, and every other entry is
\* loaded.
C20_ObjectTableMatchesXRef ==
    ObjectsLoaded =>
        /\ \A n \in DOMAIN doc.Objects :
              /\ n \in DOMAIN doc.XRefTable
              /\ doc.XRefTable[n].InUse
              /\ doc.Objects[n].ObjectNumber = n
              /\ doc.Objects[n].Generation = doc.XRefTable[n].Generation
        /\ \A n \in DOMAIN doc.XRefTable :
              n \in DOMAIN doc.Objects <=> (doc.XRefTable[n].InUse /\ HeaderAtEntry(n))

\* the objects of a file with a free entry, or with an entry whose offset or
\* generation is that of another header, have been loaded
C20_MismatchedEntrySkipped ==
    /\ ObjectsLoaded
    /\ EntryKind(input) \in {"free", "other", "generation"}
    /\ FontNum(input) \in DOMAIN doc.XRefTable
    /\ FontNum(input) \notin DOMAIN doc.Objects
    /\ ContentNum(input) \in DOMAIN doc.Objects

\* the objects have been loaded from a file whose content stream holds a line
\* of more than 64 KiB, under an in-use entry that points at its header
C20_LongLineEntryRead ==
    /\ ObjectsLoaded
    /\ StreamKind(input) = "long"
    /\ ContentNum(input) \in DOMAIN doc.XRefTable
    /\ doc.XRefTable[ContentNum(input)].InUse
    /\ HeaderAtEntry(ContentNum(input))
    /\ ContentNum(input) \notin DOMAIN doc.Objects

-----------------------------------------------------------------------------
(* Properties of the rebuilt xref table *)

\* the byte offset in the file of line k of the input
LineOffset(k) == Len(LinesFile(SubSeq(input, 1, k - 1), 1))

\* the lines of the input that hold a header of object n
HeaderLines(n) ==
    {k \in 1..Len(input) :
        \E i \in 0..(Len(input[k]) - 1) :
            ObjPatternAt(input[k], i).ok /\ ObjPatternAt(input[k], i).num = n}

\* the byte offset in the file of the header on line k
HeaderOffset(k) ==
    LineOffset(k) + Min({i \in 0..(Len(input[k]) - 1) : ObjPatternAt(input[k], i).ok})

\* C21: after a full rebuild of a file in which an object number stands in
\* several header lines, the xref entry of that number holds the largest byte
\* offset among those headers.
C21_LargestOffsetKept ==
    Done =>
        \A n \in DOMAIN doc.XRefTable :
            Cardinality(HeaderLines(n)) > 1 =>
                doc.XRefTable[n].Offset = Max({HeaderOffset(k) : k \in HeaderLines(n)})

\* a file with two header lines of object 1 has been rebuilt
C21_DuplicateHeadersRebuilt ==
    /\ Done
    /\ Cardinality(HeaderLines(1)) > 1
    /\ 1 \in DOMAIN doc.XRefTable

-----------------------------------------------------------------------------
(* Properties of the startxref search *)

\* the trailing 1 KiB of the file
TrailingWindow == Slice(file, Max({0, Len(file) - 1024}), Len(file))

\* the places of the window where startxref is followed by a decimal integer
StartxrefMatches ==
    {i \in 0..(Len(TrailingWindow) - 9) : StartxrefAt(TrailingWindow, i)}

\* the integer that follows startxref at place i of the window
IntegerAfter(i) ==
    Atoi(Slice(TrailingWindow, RunEnd(TrailingWindow, i + 9, IsSpace),
               RunEnd(TrailingWindow, RunEnd(TrailingWindow, i + 9, IsSpace), IsDigit)))

\* C22: when the trailing 1 KiB of the file holds several occurrences of
\* startxref followed by an integer, findLastXRefOffset returns the integer
\* that follows the last of them.
C22_LastStartxrefReturned ==
    (pc # "findLastXRefOffset" /\ Cardinality(StartxrefMatches) > 1) =>
        /\ pc = "parseXRefAndTrailer"
        /\ doc.XRefOffset = IntegerAfter(Max(StartxrefMatches))

\* findLastXRefOffset has returned for a window with two occurrences of
\* startxref that are followed by different integers
C22_TwoStartxrefSearched ==
    /\ pc = "parseXRefAndTrailer"
    /\ Cardinality(StartxrefMatches) > 1
    /\ IntegerAfter(Min(StartxrefMatches)) # IntegerAfter(Max(StartxrefMatches))

-----------------------------------------------------------------------------
(* Properties of parseCMap *)

\* the map after one entry of a block, as the CMap states it
EntryApplied(entry, codeToUnicode) ==
    IF Len(entry) = 2 THEN Put(codeToUnicode, entry[1], entry[2])
    ELSE PutRange(entry[1], entry[1], entry[2], entry[3], codeToUnicode)

RECURSIVE InCMapOrder(_, _, _, _)
\* the map after the entries of the blocks from entry j of block k on, each
\* applied in the order of the CMap stream
InCMapOrder(blocks, k, j, codeToUnicode) ==
    IF k > Len(blocks) THEN codeToUnicode
    ELSE IF j > Len(blocks[k].entries) THEN InCMapOrder(blocks, k + 1, 1, codeToUnicode)
    ELSE Only({InCMapOrder(blocks, k, j + 1, next) :
                 next \in {EntryApplied(blocks[k].entries[j], codeToUnicode)}})

\* C23: after parseCMap the map code_to_unicode is the one obtained by applying
\* the bfchar and bfrange entries in the order of the CMap stream, a later
\* entry overriding an earlier one for the same code, and a bfrange entry
\* <LO> <HI> <DST> mapping each code i of LO..HI to DST + (i - LO).
C23_LaterEntryWins ==
    Done => doc.CodeToUnicode = InCMapOrder(input, 1, 1, <<>>)

\* a CMap with a bfrange block followed by a bfchar block for a code of the
\* range has been parsed
C23_CharAfterRangeParsed ==
    /\ Done
    /\ Len(input) = 2
    /\ input[1].kind = "bfrange"
    /\ input[2].kind = "bfchar"
    /\ \E r \in 1..Len(input[1].entries) : \E c \in 1..Len(input[2].entries) :
          input[2].entries[c][1] \in input[1].entries[r][1]..input[1].entries[r][2]

-----------------------------------------------------------------------------
(* Properties of the font table *)

\* C24: after a successful parse the font table of the document holds a
\* /DefaultFont whose code_to_unicode maps every code of 0..255 to the
\* character with the same code point.
C24_DefaultFontIdentity ==
    (Done /\ ret = "doc") =>
        /\ "/DefaultFont" \in DOMAIN doc.Fonts
        /\ \A code \in 0..255 :
              /\ code \in DOMAIN doc.Fonts["/DefaultFont"].CodeToUnicode
              /\ doc.Fonts["/DefaultFont"].CodeToUnicode[code] = code

\* a parse has returned a document with the /DefaultFont of processFonts
C24_DefaultFontInjected ==
    /\ Done
    /\ ret = "doc"
    /\ "/DefaultFont" \in DOMAIN doc.Fonts
    /\ doc.Fonts["/DefaultFont"].Name = "DefaultFont"

-----------------------------------------------------------------------------
(* Properties of the reading order *)

\* floor(y / line_height), line_height = average font size * 1.5
FloorRowKey(positions, k) ==
    (positions[k].Y * Len(positions)) \div (15 * TotalFontSize(positions, 1))

\* C25: after SortTextPositions the runs stand by descending
\* row_key = floor(y / line_height), and runs of equal row_key by ascending x,
\* for positive and negative y alike.
C25_RowsThenColumns ==
    pc # "SortTextPositions" =>
        \A i \in 1..(Len(doc.TextPositions) - 1) :
            \/ FloorRowKey(doc.TextPositions, i) > FloorRowKey(doc.TextPositions, i + 1)
            \/ /\ FloorRowKey(doc.TextPositions, i) = FloorRowKey(doc.TextPositions, i + 1)
               /\ doc.TextPositions[i].X <= doc.TextPositions[i + 1].X

\* runs with baselines above and below the origin have been sorted
C25_NegativeBaselineSorted ==
    /\ pc # "SortTextPositions"
    /\ \E i \in 1..Len(doc.TextPositions) : doc.TextPositions[i].Y < 0
    /\ \E i \in 1..Len(doc.TextPositions) : doc.TextPositions[i].Y > 0

RECURSIVE RowText(_, _)
\* the text of the runs from run i on, with a newline before a run exactly
\* when its row_key differs from that of the run before it, and else the
\* space that ExtractOrderedText puts into a wide gap
RowText(positions, i) ==
    IF i > Len(positions) THEN ""
    ELSE (IF i = 1 THEN ""
          ELSE IF FloorRowKey(positions, i) # FloorRowKey(positions, i - 1) THEN "\n"
          ELSE IF positions[i].X - (positions[i - 1].X
                     + Len(positions[i - 1].Text) * positions[i - 1].FontSize * 6)
                  > positions[i].FontSize * 20
               THEN " "
          ELSE "")
         \o positions[i].Text \o RowText(positions, i + 1)

\* C26: in the text that ExtractOrderedText assembles from the ordered runs a
\* newline stands between two consecutive runs exactly when their row_key
\* differs, and never between two runs of one row.
C26_NewlineBetweenRows ==
    Done => out.r = RowText(doc.TextPositions, 1)

\* the text of a page with two runs of one row and a run of another row has
\* been assembled
C26_RowsAssembled ==
    /\ Done
    /\ Len(doc.TextPositions) = 3
    /\ \E i \in 1..2 :
          FloorRowKey(doc.TextPositions, i) = FloorRowKey(doc.TextPositions, i + 1)
    /\ \E i \in 1..2 :
          FloorRowKey(doc.TextPositions, i) # FloorRowKey(doc.TextPositions, i + 1)

-----------------------------------------------------------------------------
(* Properties of decodeText *)

\* the rune of an escape that is not octal
EscapeRune(c) ==
    CASE c = "n" -> 10 [] c = "r" -> 13 [] c = "t" -> 9 [] c = "b" -> 8 [] c = "f" -> 12
      [] OTHER -> Ord(c)

\* the place after the octal digits, three at most, that start at i
OctalEnd(textBytes, i) == Min({RunEnd(textBytes, i, isOctal), i + 3})

RECURSIVE EscapesDecoded(_, _, _)
\* the runes of the operand from byte i on when an octal escape of one, two or
\* three digits gives the one code of that value and nothing is skipped
EscapesDecoded(textBytes, i, codeToUnicode) ==
    IF i >= Len(textBytes) THEN <<>>
    ELSE IF At(textBytes, i) = "\\" /\ i + 1 < Len(textBytes)
    THEN IF isOctal(At(textBytes, i + 1))
         THEN <<MappedRune(ParseOctal(Slice(textBytes, i + 1, OctalEnd(textBytes, i + 1))),
                           codeToUnicode)>>
              \o EscapesDecoded(textBytes, OctalEnd(textBytes, i + 1), codeToUnicode)
         ELSE <<EscapeRune(At(textBytes, i + 1))>>
              \o EscapesDecoded(textBytes, i + 2, codeToUnicode)
    ELSE <<MappedRune(Ord(At(textBytes, i)), codeToUnicode)>>
         \o EscapesDecoded(textBytes, i + 1, codeToUnicode)

\* the operand holds an octal escape
HasOctalEscape == \E k \in 1..Len(input.pieces) : input.pieces[k] \in {"\\101", "\\7", "\\12"}

\* C27: for an operand with an octal escape of one, two or three digits
\* decodeText gives the one character code of that octal value, mapped through
\* code_to_unicode of the font, and decodes every byte after the escape.
C27_OctalEscapeDecoded ==
    (Done /\ HasOctalEscape) => out.r = EscapesDecoded(file, 0, doc.CodeToUnicode)

\* an operand in which a byte follows an octal escape of three digits has
\* been decoded
C27_ByteAfterEscapeDecoded ==
    /\ Done
    /\ \E k \in 1..(Len(input.pieces) - 1) : input.pieces[k] = "\\101"

-----------------------------------------------------------------------------
(* Properties of the log level under concurrent parses *)

AllReturned == \A g \in Goroutines : pc[g] = "returned"

\* C28: once every parse has returned, whatever the interleaving, the global
\* log level is the level that was set before the parses entered
\* parseXRefAndTrailer, here the level of their options.
C28_LogLevelRestored ==
    AllReturned => doc.logLevel = input.level

\* both parses have returned, and one of them entered parseXRefAndTrailer
\* while the other had raised the level
C28_OverlappingParsesReturned ==
    /\ AllReturned
    /\ input.level # LogDebug
    /\ \E g \in Goroutines : call[g].origLogLevel = LogDebug

-----------------------------------------------------------------------------
(* Properties of the page tree walk *)

\* the page tree of the input: a /Kids entry leads back to its own node or to
\* an ancestor
CyclicTree ==
    \/ input.root \in {"[[2 0 R]]", "[[3 0 R] [2 0 R]]", "[2 0 R]"}
    \/ input.root \in {"[[4 0 R]]", "[[3 0 R] [4 0 R] [3 0 R]]"}
       /\ input.inner \in {"[[2 0 R]]", "[[4 0 R] [3 0 R]]"}

\* C29: processPageTree terminates for every object table, cyclic page trees
\* included: the first call returns to processPages in the end.
C29_WalkReturns == <>(pc = "done")

\* the walk of a cyclic page tree has come back to a node whose loop over
\* kidRefs is still running
C29_CycleEntered ==
    /\ CyclicTree
    /\ pc = "processPageTree"
    /\ \E f \in 1..Len(call) : call[f].objNum = out.objNum

-----------------------------------------------------------------------------
(* Properties of the text chunks *)

IsNonEmptyLine(line) == line # ""

RECURSIVE LinesOfChunks(_, _)
\* the lines of the chunks from chunk k on, in chunk order
LinesOfChunks(chunks, k) ==
    IF k > Len(chunks) THEN <<>>
    ELSE SplitNewline(chunks[k]) \o LinesOfChunks(chunks, k + 1)

\* C30: processTextChunks loses and reorders nothing: the non-empty lines of
\* all chunks, read in chunk order, are the non-empty lines of the text of the
\* pages in their order, and no chunk is empty.
C30_ChunksKeepLines ==
    pc \in {"updateMetrics", "done"} =>
        /\ SelectSeq(LinesOfChunks(doc.TextChunks, 1), IsNonEmptyLine)
               = SelectSeq(input.first \o input.second, IsNonEmptyLine)
        /\ \A i \in 1..Len(doc.TextChunks) : doc.TextChunks[i] # ""

\* processTextChunks has cut text with an empty line into more than one chunk
C30_TextCutIntoChunks ==
    /\ pc = "updateMetrics"
    /\ Len(doc.TextChunks) >= 2
    /\ \E k \in 1..Len(input.first) : input.first[k] = ""
    /\ \E k \in 1..Len(input.second) : input.second[k] # ""

====
